---- MODULE Spec2Model ----
(***************************************************************************)
(* Building-Vitals ingestion: the paginated RAW backfill script            *)
(* (scripts/python/backfill_paginated_raw.py) and the Cloud Functions      *)
(* sync (functions/main.py), modelled over a relational store with         *)
(* points(site_name, name) and timeseries(point_id, ts) conflict keys.     *)
(*                                                                         *)
(* Instants are integers counting milliseconds.  An ISO-8601 string is a   *)
(* record of the instant it denotes and the way it is written.  Floating   *)
(* point values are records: a finite number, NaN, or an infinity.         *)
(***************************************************************************)
EXTENDS Integers, Sequences, FiniteSets, TLC

(***************************************************************************)
(* Bounds of the model.                                                    *)
(***************************************************************************)
\* longest list of raw records or samples drawn as an input
MaxLen == 2
\* rows per timeseries insert (chunk(unique_rows, 50) in the script), scaled
\* to the list lengths of the model
InsertBatch == 2
\* rows per fallback upsert (chunk(batch, 10) in the script), scaled
MiniBatch == 1
\* rows per points insert (chunk(rows, 50) in the script), scaled
PointBatch == 1
\* names per points re-read (chunk(new_names, 100) in the script), scaled
SelectBatch == 2
\* rows per upsert of main.py (config.upsert_batch_size, 250), scaled
UpsertBatch == 2
\* max_pages of sync_site (100 in continuous_sync, the request's in
\* backfill_historical), scaled
MaxPages == 2
\* rows the upstream serves per page (the page_size the script asks for), scaled
PageRows == 2
\* the page-count ceiling of fetch_paginated_window (pages > 200), scaled
PageCeiling == 2
\* names per filtered fetch (chunk(point_names, 300) in run_backfill), scaled
NameChunk == 1
\* rows per request of load_all_point_ids (batch_size = 1000), scaled
LoadBatch == 2
\* the largest --max-chunks of the model
MaxChunks == 2
\* runs of the backfill script in a row
MaxRuns == 2
\* the store calls of one window among which one may fail or be the last
\* before an interruption
MaxCalls == 4
\* the things that go wrong (a failing store call, a failing or cut short
\* fetch, an interruption) in a sequence of backfill runs
MaxFaults == 1

(***************************************************************************)
(* Program constants.                                                      *)
(***************************************************************************)
MsPerSecond == 1000
MsPerMinute == 60000
\* attempts per page request: range(4)
Attempts == 4
\* Retry(total=5, connect=3, read=3) of the session's adapter
TotalRetries == 5
\* effective_page_size = max(10000, min(int(page_size), 50000)); * 0.6 on a
\* failure; page_size: int = 100000
PageFloor == 10000
PageCap == 50000
ShrinkTenths == 6
DefaultPageSize == 100000
ConnectRetries == 3

Names == {"a", "b"}
\* the order sorted() gives the names
NameOrder == <<"a", "b", "c", "d">>
Sites == {"s1", "s2"}

(***************************************************************************)
(* Floating point values and Python's float().                             *)
(***************************************************************************)
Fin(n) == [c |-> "fin", n |-> n]
NaN == [c |-> "nan", n |-> 0]
PosInf == [c |-> "inf", n |-> 1]
NegInf == [c |-> "inf", n |-> -1]
Floats == {Fin(1), Fin(2), NaN, PosInf, NegInf}

\* math.isfinite
IsFinite(f) == f.c = "fin"
\* Python's x == x: false exactly for NaN
EqSelf(f) == f.c # "nan"

\* a raw "value" field: a JSON number, a JSON string, or absent
NumVal(f) == [t |-> "num", f |-> f, s |-> ""]
StrVal(s) == [t |-> "str", f |-> NaN, s |-> s]
NoVal == [t |-> "none", f |-> NaN, s |-> ""]
ValueStrings == {"nan", "NaN", "inf", "+inf", "-inf", "Infinity", "infinity",
                 "-Infinity", " NaN ", "abc", "1", "2"}
RawValues == {NumVal(f) : f \in Floats} \cup {StrVal(s) : s \in ValueStrings}
             \cup {NoVal}

\* str.strip().lower() on the strings of the model
StripLower(s) ==
  CASE s = "NaN" -> "nan"
    [] s = " NaN " -> "nan"
    [] s = "Infinity" -> "infinity"
    [] s = "-Infinity" -> "-infinity"
    [] OTHER -> s

\* float(x): [ok |-> FALSE] stands for the ValueError / TypeError it raises
PyFloat(v) ==
  IF v.t = "num" THEN [ok |-> TRUE, f |-> v.f]
  ELSE IF v.t = "none" THEN [ok |-> FALSE, f |-> NaN]
  ELSE LET l == StripLower(v.s) IN
    CASE l = "nan" -> [ok |-> TRUE, f |-> NaN]
      [] l \in {"inf", "+inf", "infinity", "+infinity"} -> [ok |-> TRUE, f |-> PosInf]
      [] l \in {"-inf", "-infinity"} -> [ok |-> TRUE, f |-> NegInf]
      [] l = "1" -> [ok |-> TRUE, f |-> Fin(1)]
      [] l = "2" -> [ok |-> TRUE, f |-> Fin(2)]
      [] OTHER -> [ok |-> FALSE, f |-> NaN]

(***************************************************************************)
(* Raw records of the telemetry API.  A name field holds a name or "" (the *)
(* field is absent, null or empty: all are falsy).  The time field is the  *)
(* first truthy one of time / timestamp / ts.                              *)
(***************************************************************************)
IntTime(ms) == [k |-> "int", ms |-> ms]
IsoTime(ms) == [k |-> "iso", ms |-> ms]
BadTime == [k |-> "bad", ms |-> 0]
NoTime == [k |-> "none", ms |-> 0]

Raw(n, p, q, t, v) ==
  [name |-> n, point |-> p, point_name |-> q, time |-> t, value |-> v]

\* a or b or c on name fields
FirstNonEmpty(a, b, c) == IF a # "" THEN a ELSE IF b # "" THEN b ELSE c

\* sample.get("time") or ...: the integer 0 is falsy like an absent field
TimeField(r) ==
  IF r.time.k = "int" /\ r.time.ms = 0 THEN NoTime ELSE r.time

(***************************************************************************)
(* Time helpers of the backfill script.                                    *)
(***************************************************************************)
\* an ISO-8601 string: the instant it denotes and the way it is written
\* ("Z": whole seconds, UTC, as iso() writes it; "offset" and "naive": at full
\* precision with and without a UTC offset, as datetime.isoformat() writes it)
TsStr(ms, fmt) == [ms |-> ms, fmt |-> fmt]
\* iso(dt): replace(microsecond=0), rendered in UTC
iso(ms) == TsStr((ms \div MsPerSecond) * MsPerSecond, "Z")
\* parse_iso(s)
parse_iso(str) == str.ms

\* chunk(lst, size)
RECURSIVE chunk(_, _)
chunk(lst, size) ==
  IF Len(lst) = 0 THEN <<>>
  ELSE IF Len(lst) <= size THEN <<lst>>
  ELSE <<SubSeq(lst, 1, size)>> \o chunk(SubSeq(lst, size + 1, Len(lst)), size)

\* lists of length at most n over a set
SeqsUpTo(S, n) == UNION {[1..k -> S] : k \in 0..n}
Range(s) == {s[i] : i \in 1..Len(s)}
Max(a, b) == IF a >= b THEN a ELSE b
Min(a, b) == IF a <= b THEN a ELSE b

(***************************************************************************)
(* dict[key] = row over a list, then list(dict.values()): one row per      *)
(* (point_id, ts), at the place of the key's first occurrence, holding the *)
(* row of its last occurrence.                                             *)
(***************************************************************************)
KeyOf(row) == <<row.point_id, row.ts>>

\* a dict that keeps the row first stored at a key
RECURSIVE DictPutKeepFirst(_, _, _)
DictPutKeepFirst(acc, row, i) ==
  IF i > Len(acc) THEN Append(acc, row)
  ELSE IF KeyOf(acc[i]) = KeyOf(row) THEN acc
  ELSE DictPutKeepFirst(acc, row, i + 1)

RECURSIVE DictPut(_, _, _)
DictPut(acc, row, i) ==
  IF i > Len(acc) THEN Append(acc, row)
  ELSE IF KeyOf(acc[i]) = KeyOf(row) THEN [acc EXCEPT ![i] = row]
  ELSE DictPut(acc, row, i + 1)

RECURSIVE DictValues(_, _)
DictValues(rows, acc) ==
  IF Len(rows) = 0 THEN acc
  ELSE DictValues(Tail(rows), DictPut(acc, Head(rows), 1))

(***************************************************************************)
(* functions/main.py: transform_samples and deduplicate_samples.           *)
(* A ts string of main.py is datetime.isoformat(): the instant at full     *)
(* precision, written without an offset for an epoch-millisecond input     *)
(* (datetime.fromtimestamp is naive) and with one for an ISO input.        *)
(***************************************************************************)
\* one pass of the loop body: [ok |-> FALSE] is a skipped record
TransformOne(sample, point_cache) ==
  LET name == FirstNonEmpty(sample.name, sample.point, sample.point_name)
      time_val == TimeField(sample)
      fl == PyFloat(sample.value)
      none == [ok |-> FALSE, row |-> [point_id |-> 0, ts |-> TsStr(0, "naive"), value |-> NaN]]
  IN IF name = "" THEN none
     ELSE IF name \notin DOMAIN point_cache THEN none
     ELSE IF point_cache[name] = 0 THEN none
     ELSE IF time_val.k \in {"bad", "none"} THEN none
     ELSE IF ~fl.ok THEN none
     ELSE IF ~EqSelf(fl.f) THEN none
     ELSE [ok |-> TRUE,
           row |-> [point_id |-> point_cache[name],
                    ts |-> TsStr(time_val.ms, IF time_val.k = "int" THEN "naive" ELSE "offset"),
                    value |-> fl.f]]

\* transform_samples: the rows appended, the input places they came from, and
\* the skipped counter
RECURSIVE TransformLoop(_, _, _, _)
TransformLoop(raw_samples, point_cache, i, acc) ==
  IF i > Len(raw_samples) THEN acc
  ELSE LET t == TransformOne(raw_samples[i], point_cache) IN
    TransformLoop(raw_samples, point_cache, i + 1,
      IF t.ok THEN [acc EXCEPT !.rows = Append(@, t.row), !.kept = Append(@, i)]
      ELSE [acc EXCEPT !.skipped = @ + 1])

transform_samples(raw_samples, point_cache) ==
  TransformLoop(raw_samples, point_cache, 1,
                [rows |-> <<>>, kept |-> <<>>, skipped |-> 0])

deduplicate_samples(samples) == DictValues(samples, <<>>)

(***************************************************************************)
(* backfill_paginated_raw.py: the record-parsing loop of                   *)
(* fetch_paginated_window.                                                 *)
(***************************************************************************)
RejectedStrings == {"nan", "+inf", "-inf", "inf", "infinity"}

ParseOne(r) ==
  LET name == FirstNonEmpty(r.name, r.point, r.point_name)
      t == TimeField(r)
      fl == PyFloat(r.value)
      none == [ok |-> FALSE, s |-> [point_name |-> "", timestamp |-> 0, value |-> NaN]]
  IN IF t.k \in {"bad", "none"} THEN none
     ELSE IF r.value.t = "str" /\ StripLower(r.value.s) \in RejectedStrings THEN none
     ELSE IF ~fl.ok THEN none
     ELSE IF ~IsFinite(fl.f) THEN none
     ELSE IF name = "" THEN none
     ELSE [ok |-> TRUE,
           s |-> [point_name |-> name, timestamp |-> t.ms, value |-> fl.f]]

\* a variant in which a record that cannot be parsed ends the loop
RECURSIVE ParseLoopStopsAtSkip(_, _, _)
ParseLoopStopsAtSkip(rows, i, acc) ==
  IF i > Len(rows) THEN acc
  ELSE LET p == ParseOne(rows[i]) IN
    IF p.ok
    THEN ParseLoopStopsAtSkip(rows, i + 1,
           [acc EXCEPT !.rows = Append(@, p.s), !.kept = Append(@, i)])
    ELSE acc

RECURSIVE ParseLoop(_, _, _)
ParseLoop(rows, i, acc) ==
  IF i > Len(rows) THEN acc
  ELSE LET p == ParseOne(rows[i]) IN
    ParseLoop(rows, i + 1,
      IF p.ok THEN [acc EXCEPT !.rows = Append(@, p.s), !.kept = Append(@, i)]
      ELSE acc)

\* the samples appended to out for one page, and the places they came from
ParseRows(rows) == ParseLoop(rows, 1, [rows |-> <<>>, kept |-> <<>>])

(***************************************************************************)
(* The store.  A world is the store together with the caller's point       *)
(* cache and the bookkeeping of one handler run:                           *)
(*   calls   store calls made so far by the handler                        *)
(*   status  "ok", "raised" (an exception is propagating) or "killed"      *)
(*           (the process was interrupted before its next store call)      *)
(*   handed  the batches handed so far to a timeseries insert or upsert    *)
(*   accepted  the rows of the batches the store accepted so far           *)
(* An environment env says which store calls fail for a reason of the      *)
(* store's own (env.fail, by call number) and after how many store calls   *)
(* the process is interrupted (env.cut).                                   *)
(***************************************************************************)
World(st, point_cache) ==
  [points |-> st.points, nextId |-> st.nextId, timeseries |-> st.timeseries,
   ingest_state |-> st.ingest_state, point_cache |-> point_cache,
   map_ids |-> << >>, ret |-> 0, handed |-> {}, accepted |-> 0, calls |-> 0,
   asked |-> <<>>, status |-> "ok"]

StoreOf(w) ==
  [points |-> w.points, nextId |-> w.nextId, timeseries |-> w.timeseries,
   ingest_state |-> w.ingest_state]

\* env.cut < 0: the process is not interrupted
Killed(w, env) == env.cut >= 0 /\ w.calls >= env.cut
Fails(w, env) == (w.calls + 1) \in env.fail
Tick(w) == [w EXCEPT !.calls = @ + 1]
\* a select of the points table is sent: with .range(first, first + rows - 1),
\* or without a range or limit
Ranged(rows) == [ranged |-> TRUE, rows |-> rows]
Unranged == [ranged |-> FALSE, rows |-> 0]
Asks(w, request) == [Tick(w) EXCEPT !.asked = Append(@, request)]
NoFaults == [fail |-> {}, cut |-> -1]

\* the timeseries conflict key of a row as the store sees it: the instant
DbKey(row) == <<row.point_id, row.ts.ms>>
DbRow(row) == [point_id |-> row.point_id, ts |-> row.ts.ms, value |-> row.value]
DbKeys(timeseries) == {<<r.point_id, r.ts>> : r \in timeseries}
RepeatsKey(batch) ==
  \E i, j \in 1..Len(batch) : i # j /\ DbKey(batch[i]) = DbKey(batch[j])

\* table("timeseries").insert(batch): rejected as a whole on a key conflict
TsInsertRejects(timeseries, batch) ==
  \/ RepeatsKey(batch)
  \/ \E i \in 1..Len(batch) : DbKey(batch[i]) \in DbKeys(timeseries)
TsInsert(timeseries, batch) ==
  timeseries \cup {DbRow(batch[i]) : i \in 1..Len(batch)}

\* table("timeseries").upsert(batch, on_conflict="point_id,ts"): the incoming
\* row replaces the stored one; a batch naming one key twice is rejected
TsUpsertRejects(timeseries, batch) == RepeatsKey(batch)

\* a variant in which the stored row is kept on a conflict
TsUpsertKeepsStored(timeseries, batch) ==
  timeseries \cup {DbRow(batch[i]) :
                     i \in {j \in 1..Len(batch) : DbKey(batch[j]) \notin DbKeys(timeseries)}}

TsUpsert(timeseries, batch) ==
  {r \in timeseries : <<r.point_id, r.ts>> \notin {DbKey(batch[i]) : i \in 1..Len(batch)}}
  \cup {DbRow(batch[i]) : i \in 1..Len(batch)}

\* table("points").insert(rows): ids come from the table's sequence
PointsInsertRejects(points, site, names) ==
  \/ \E i, j \in 1..Len(names) : i # j /\ names[i] = names[j]
  \/ \E i \in 1..Len(names) :
       \E p \in points : p.site_name = site /\ p.name = names[i]
PointsInsert(w, site, names) ==
  [w EXCEPT !.points = @ \cup {[site_name |-> site, name |-> names[i],
                                id |-> w.nextId + i - 1] : i \in 1..Len(names)},
            !.nextId = @ + Len(names)]

\* table("points").select("id,name").eq("site_name", site).in_("name", batch)
PointsSelect(points, site, nameSet) ==
  LET hit == {p \in points : p.site_name = site /\ p.name \in nameSet}
  IN [n \in {p.name : p \in hit} |-> (CHOOSE p \in hit : p.name = n).id]

SitePointNames(points, site) == {p.name : p \in {q \in points : q.site_name = site}}

\* the names of a set in sorted order
Sorted(nameSet) == SelectSeq(NameOrder, LAMBDA n : n \in nameSet)

(***************************************************************************)
(* backfill_paginated_raw.py: upsert_points.                               *)
(***************************************************************************)
\* one insert of a batch of new points; a rejection is swallowed
PointsInsertCall(w, env, site, batch) ==
  IF Killed(w, env) THEN [w EXCEPT !.status = "killed"]
  ELSE IF Fails(w, env) \/ PointsInsertRejects(w.points, site, batch) THEN Tick(w)
  ELSE PointsInsert(Tick(w), site, batch)

RECURSIVE PointsInsertLoop(_, _, _, _)
PointsInsertLoop(w, env, site, batches) ==
  IF Len(batches) = 0 \/ w.status # "ok" THEN w
  ELSE PointsInsertLoop(PointsInsertCall(w, env, site, Head(batches)), env, site,
                        Tail(batches))

\* one re-read of a batch of names into the cache; a failure propagates
PointsSelectCall(w, env, site, batch) ==
  IF Killed(w, env) THEN [w EXCEPT !.status = "killed"]
  ELSE IF Fails(w, env) THEN [Tick(w) EXCEPT !.status = "raised"]
  ELSE [Tick(w) EXCEPT !.point_cache = PointsSelect(w.points, site, Range(batch)) @@ @]

RECURSIVE PointsSelectLoop(_, _, _, _)
PointsSelectLoop(w, env, site, batches) ==
  IF Len(batches) = 0 \/ w.status # "ok" THEN w
  ELSE PointsSelectLoop(PointsSelectCall(w, env, site, Head(batches)), env, site,
                        Tail(batches))

\* a variant that re-reads the ids before it inserts the new names
ReadThenInsertNewPoints(w, env, site, new_names) ==
  PointsInsertLoop(PointsSelectLoop(w, env, site, chunk(new_names, SelectBatch)),
                   env, site, chunk(new_names, PointBatch))

\* the new names are inserted in batches, then their ids are re-read in batches
InsertThenReadNewPoints(w, env, site, new_names) ==
  PointsSelectLoop(PointsInsertLoop(w, env, site, chunk(new_names, PointBatch)),
                   env, site, chunk(new_names, SelectBatch))

\* upsert_points(client, site, names, point_cache): the returned mapping is
\* left in map_ids
upsert_points(w, env, site, nameSet) ==
  LET names == Sorted(nameSet \ {""})
      new_names == SelectSeq(names, LAMBDA n : n \notin DOMAIN w.point_cache)
      w1 == IF Len(new_names) = 0 THEN w
            ELSE InsertThenReadNewPoints(w, env, site, new_names)
  IN IF Len(names) = 0 THEN [w EXCEPT !.map_ids = << >>]
     ELSE [w1 EXCEPT !.map_ids =
             [n \in Range(names) \cap DOMAIN w1.point_cache |-> w1.point_cache[n]]]

(***************************************************************************)
(* backfill_paginated_raw.py: upsert_timeseries.                           *)
(***************************************************************************)
\* the rows prepared from the samples: non-finite values and samples whose
\* name has no id are left out; ts is the ISO string of the sample's instant
RECURSIVE PrepareRows(_, _)
PrepareRows(samples, map_ids) ==
  IF Len(samples) = 0 THEN <<>>
  ELSE LET s == Head(samples)
           rest == PrepareRows(Tail(samples), map_ids)
       IN IF ~IsFinite(s.value) THEN rest
          ELSE IF s.point_name \notin DOMAIN map_ids THEN rest
          ELSE <<[point_id |-> map_ids[s.point_name], ts |-> iso(s.timestamp),
                  value |-> s.value]>> \o rest

\* one fallback upsert of a mini batch; a failure skips the mini batch
MiniUpsertCall(w, env, mini_batch) ==
  IF Killed(w, env) THEN [w EXCEPT !.status = "killed"]
  ELSE LET w1 == [Tick(w) EXCEPT !.handed = @ \cup {mini_batch}] IN
    IF Fails(w, env) \/ TsUpsertRejects(w.timeseries, mini_batch) THEN w1
    ELSE [w1 EXCEPT !.timeseries = TsUpsert(@, mini_batch),
                    !.accepted = @ + Len(mini_batch),
                    !.ret = @ + Len(mini_batch)]

RECURSIVE MiniUpsertLoop(_, _, _)
MiniUpsertLoop(w, env, minis) ==
  IF Len(minis) = 0 \/ w.status # "ok" THEN w
  ELSE MiniUpsertLoop(MiniUpsertCall(w, env, Head(minis)), env, Tail(minis))

\* a variant that gives a rejected batch up
InsertBatchCallWithoutFallback(w, env, batch) ==
  IF Killed(w, env) THEN [w EXCEPT !.status = "killed"]
  ELSE LET w1 == [Tick(w) EXCEPT !.handed = @ \cup {batch}] IN
    IF Fails(w, env) \/ TsInsertRejects(w.timeseries, batch) THEN w1
    ELSE [w1 EXCEPT !.timeseries = TsInsert(@, batch), !.accepted = @ + Len(batch),
                    !.ret = @ + Len(batch)]

\* one batch: the plain insert, and on its failure the smaller upserts
InsertBatchCall(w, env, batch) ==
  IF Killed(w, env) THEN [w EXCEPT !.status = "killed"]
  ELSE LET w1 == [Tick(w) EXCEPT !.handed = @ \cup {batch}] IN
    IF Fails(w, env) \/ TsInsertRejects(w.timeseries, batch)
    THEN MiniUpsertLoop(w1, env, chunk(batch, MiniBatch))
    ELSE [w1 EXCEPT !.timeseries = TsInsert(@, batch), !.accepted = @ + Len(batch),
                    !.ret = @ + Len(batch)]

RECURSIVE InsertBatchLoop(_, _, _)
InsertBatchLoop(w, env, batches) ==
  IF Len(batches) = 0 \/ w.status # "ok" THEN w
  ELSE InsertBatchLoop(InsertBatchCall(w, env, Head(batches)), env, Tail(batches))

\* upsert_timeseries(client, site, samples, point_cache): the returned count
\* is left in ret
upsert_timeseries(w, env, site, samples) ==
  IF Len(samples) = 0 THEN [w EXCEPT !.ret = 0]
  ELSE LET w1 == upsert_points(w, env, site, {samples[i].point_name : i \in 1..Len(samples)})
           rows == PrepareRows(samples, w1.map_ids)
           unique_rows == DictValues(rows, <<>>)
       IN IF w1.status # "ok" THEN w1
          ELSE InsertBatchLoop([w1 EXCEPT !.ret = 0], env, chunk(unique_rows, InsertBatch))

(***************************************************************************)
(* functions/main.py: SupabaseClient.upsert_timeseries.                    *)
(***************************************************************************)
\* one batch: a failure is logged and the batch skipped
UpsertBatchCall(w, env, batch) ==
  IF Killed(w, env) THEN [w EXCEPT !.status = "killed"]
  ELSE LET w1 == [Tick(w) EXCEPT !.handed = @ \cup {batch}] IN
    IF Fails(w, env) \/ TsUpsertRejects(w.timeseries, batch) THEN w1
    ELSE [w1 EXCEPT !.timeseries = TsUpsert(@, batch), !.accepted = @ + Len(batch),
                    !.ret = @ + Len(batch)]

RECURSIVE UpsertBatchLoop(_, _, _)
UpsertBatchLoop(w, env, batches) ==
  IF Len(batches) = 0 \/ w.status # "ok" THEN w
  ELSE UpsertBatchLoop(UpsertBatchCall(w, env, Head(batches)), env, Tail(batches))

\* SupabaseClient.upsert_timeseries(samples): the returned count is left in ret
SupabaseClient_upsert_timeseries(w, env, samples) ==
  IF Len(samples) = 0 THEN [w EXCEPT !.ret = 0]
  ELSE UpsertBatchLoop([w EXCEPT !.ret = 0], env, chunk(samples, UpsertBatch))

(***************************************************************************)
(* functions/main.py: SupabaseClient.load_point_cache, upsert_points and   *)
(* get_sites_from_db.                                                      *)
(***************************************************************************)
\* a variant whose failed load leaves the cache as it was
LoadFailureKeepsCache(w, env, site) ==
  IF Killed(w, env) THEN [w EXCEPT !.status = "killed"]
  ELSE IF Fails(w, env) THEN Asks(w, Unranged)
  ELSE [Asks(w, Unranged) EXCEPT
          !.point_cache = PointsSelect(w.points, site, SitePointNames(w.points, site))]

\* load_point_cache(site): a failure leaves the cache empty
load_point_cache(w, env, site) ==
  IF Killed(w, env) THEN [w EXCEPT !.status = "killed"]
  ELSE IF Fails(w, env) THEN [Asks(w, Unranged) EXCEPT !.point_cache = << >>]
  ELSE [Asks(w, Unranged) EXCEPT
          !.point_cache = PointsSelect(w.points, site, SitePointNames(w.points, site))]

\* the re-read after a successful insert; its failure is logged
RefreshCall(w, env, site, new_points) ==
  IF Killed(w, env) THEN [w EXCEPT !.status = "killed"]
  ELSE IF Fails(w, env) THEN Tick(w)
  ELSE [Tick(w) EXCEPT !.point_cache = PointsSelect(w.points, site, Range(new_points)) @@ @]

\* upsert_points(site, point_names): one insert of all the new names, then one
\* re-read; a failed insert is logged and the re-read skipped
SupabaseClient_upsert_points(w, env, site, point_names) ==
  LET new_points == SelectSeq(point_names, LAMBDA n : n \notin DOMAIN w.point_cache)
  IN IF Len(new_points) = 0 THEN w
     ELSE IF Killed(w, env) THEN [w EXCEPT !.status = "killed"]
     ELSE IF Fails(w, env) \/ PointsInsertRejects(w.points, site, new_points) THEN Tick(w)
     ELSE RefreshCall(PointsInsert(Tick(w), site, new_points), env, site, new_points)

\* get_sites_from_db(): the distinct site names of the points table
get_sites_from_db(points) == {p.site_name : p \in points}

(***************************************************************************)
(* functions/main.py: sync_site.  A fetched page is what                   *)
(* fetch_timeseries_page returned: (samples, next_cursor, error), with ""  *)
(* for no cursor and for no error.  A page whose list holds something that *)
(* is no JSON object makes sample.get raise.                               *)
(***************************************************************************)
Page(samples, next_cursor, error, malformed) ==
  [samples |-> samples, next_cursor |-> next_cursor, error |-> error,
   malformed |-> malformed]

\* the dict sync_site returns
SyncResult(l, error) ==
  [site |-> l.site, samples |-> l.total_samples, inserted |-> l.total_inserted,
   unique_points |-> Cardinality(l.unique_points), pages |-> l.pages_fetched,
   error |-> error]

\* the names sync_site tracks: name or point
TrackedNames(raw_samples) ==
  {FirstNonEmpty(raw_samples[i].name, raw_samples[i].point, "") :
     i \in 1..Len(raw_samples)} \ {""}

\* The body of the while loop after the fetch.  l holds sync_site's locals; the
\* outcome is "return" (with l.result), "raise", "break" or "continue".

\* a variant that takes a failed fetch for an empty page with more to come
FetchErrorSkipsPage(w, l, page) ==
  [w |-> w, out |-> "continue", l |-> [l EXCEPT !.pages_fetched = @ + 1]]

\* the fetch reported an error: the totals so far are returned with it
FetchErrorReturns(w, l, page) ==
  [w |-> w, out |-> "return", l |-> [l EXCEPT !.result = SyncResult(l, page.error)]]

SyncPageStep(w, env, l, page) ==
  IF page.error # "" THEN FetchErrorReturns(w, l, page)
  ELSE IF Len(page.samples) = 0
  THEN IF page.next_cursor = ""
       THEN [w |-> w, out |-> "break", l |-> l]
       ELSE [w |-> w, out |-> "continue",
             l |-> [l EXCEPT !.cursor = page.next_cursor, !.pages_fetched = @ + 1]]
  ELSE IF page.malformed
  THEN [w |-> w, out |-> "raise", l |-> l]
  ELSE
    LET unique_points == l.unique_points \cup TrackedNames(page.samples)
        w1 == SupabaseClient_upsert_points(w, env, l.site, Sorted(unique_points))
        transformed == transform_samples(page.samples, w1.point_cache).rows
        unique_samples == deduplicate_samples(transformed)
        w2 == IF Len(unique_samples) = 0 THEN [w1 EXCEPT !.ret = 0]
              ELSE SupabaseClient_upsert_timeseries(w1, env, unique_samples)
        l2 == [l EXCEPT !.unique_points = unique_points,
                        !.total_samples = @ + Len(page.samples),
                        !.total_inserted = @ + w2.ret,
                        !.cursor = page.next_cursor,
                        !.pages_fetched = @ + 1]
    IN [w |-> w2, out |-> IF page.next_cursor = "" THEN "break" ELSE "continue",
        l |-> l2]

(***************************************************************************)
(* State.                                                                  *)
(*   store  the relational store: points, timeseries and ingest_state      *)
(*          tables, and the points id sequence                             *)
(*   fn     a pure function applied to a drawn input, with its result      *)
(*   wr     upsert_timeseries called on a drawn list of samples            *)
(*   bf     a run of backfill_paginated_raw.py: main() and run_backfill()  *)
(*   sy     continuous_sync / backfill_historical / sync_site of main.py   *)
(***************************************************************************)
VARIABLES fn, store, wr, bf, sy

vars == <<fn, store, wr, bf, sy>>

Unused == [op |-> "unused"]

(***************************************************************************)
(* The pure functions on drawn inputs: the two normalizers and the         *)
(* deduplicator.                                                           *)
(***************************************************************************)
BaseRaw == Raw("a", "", "", IsoTime(1000), NumVal(Fin(1)))
RawRecords ==
  {[BaseRaw EXCEPT !.value = v] : v \in RawValues}
  \cup {Raw("", "b", "", IsoTime(1000), NumVal(Fin(2))),
        Raw("", "", "b", IsoTime(1000), NumVal(Fin(2))),
        Raw("", "", "", IsoTime(1000), NumVal(Fin(2)))}
  \cup {[BaseRaw EXCEPT !.time = t] : t \in {IntTime(1000), IntTime(0), BadTime, NoTime}}

FnCaches == {[n \in {"a", "b"} |-> IF n = "a" THEN 1 ELSE 2], [n \in {"a"} |-> 1]}

FnSamples ==
  [point_id : {1, 2}, ts : {TsStr(1000, "offset"), TsStr(2000, "offset")},
   value : {Fin(1), Fin(2)}]

NoOut == [rows |-> <<>>, kept |-> <<>>, skipped |-> 0]

InitFn ==
  /\ \/ \E l \in SeqsUpTo(RawRecords, MaxLen) \ {<<>>}, c \in FnCaches :
          fn = [op |-> "none", raw |-> l, samples |-> <<>>, point_cache |-> c,
                out |-> NoOut]
     \/ \E l \in SeqsUpTo(FnSamples, MaxLen + 1) \ {<<>>} :
          fn = [op |-> "none", raw |-> <<>>, samples |-> l,
                point_cache |-> << >>, out |-> NoOut]
  /\ store = Unused
  /\ wr = Unused
  /\ bf = Unused
  /\ sy = Unused

FnTransform ==
  /\ fn.op = "none"
  /\ fn.raw # <<>>
  /\ fn' = [fn EXCEPT !.op = "transform",
                      !.out = transform_samples(fn.raw, fn.point_cache)]
  /\ UNCHANGED <<store, wr, bf, sy>>

\* the record loop of fetch_paginated_window keeps no count of the records
\* it skips: skipped stays 0
FnParse ==
  /\ fn.op = "none"
  /\ fn.raw # <<>>
  /\ fn' = [fn EXCEPT !.op = "parse",
                      !.out = [rows |-> ParseRows(fn.raw).rows,
                               kept |-> ParseRows(fn.raw).kept, skipped |-> 0]]
  /\ UNCHANGED <<store, wr, bf, sy>>

FnDedup ==
  /\ fn.op = "none"
  /\ fn.samples # <<>>
  /\ fn' = [fn EXCEPT !.op = "dedup",
                      !.out = [NoOut EXCEPT !.rows = deduplicate_samples(fn.samples)]]
  /\ UNCHANGED <<store, wr, bf, sy>>

NextFn == FnTransform \/ FnParse \/ FnDedup

SpecFn == InitFn /\ [][NextFn]_vars

(***************************************************************************)
(* C4: the normalizers reject non-finite values.  For every raw record     *)
(* whose value is the string "NaN" or "Infinity" in any case, or the       *)
(* number NaN, +Infinity or -Infinity, the record is absent from the       *)
(* output of transform_samples and of the record-parsing loop.             *)
(***************************************************************************)
NonFiniteInput(v) ==
  \/ v.t = "num" /\ v.f \in {NaN, PosInf, NegInf}
  \/ v.t = "str" /\ v.s \in {"nan", "NaN", "Infinity", "infinity"}

C4_NormalizerRejectsNonFinite ==
  fn.op \in {"transform", "parse"} =>
    \A i \in 1..Len(fn.raw) :
      NonFiniteInput(fn.raw[i].value) => i \notin Range(fn.out.kept)

(***************************************************************************)
(* C5: deduplication is last-write-wins.  deduplicate_samples returns      *)
(* exactly one sample per distinct (point_id, ts) of its input, and for    *)
(* each key the sample at the key's last position in the input.            *)
(***************************************************************************)
LastPos(samples, key) ==
  CHOOSE j \in 1..Len(samples) :
    /\ KeyOf(samples[j]) = key
    /\ \A k \in (j + 1)..Len(samples) : KeyOf(samples[k]) # key

C5_DedupLastWriteWins ==
  fn.op = "dedup" =>
    LET in == fn.samples
        out == fn.out.rows
    IN /\ \A i, j \in 1..Len(out) : i # j => KeyOf(out[i]) # KeyOf(out[j])
       /\ {KeyOf(out[i]) : i \in 1..Len(out)} = {KeyOf(in[i]) : i \in 1..Len(in)}
       /\ \A i \in 1..Len(out) : out[i] = in[LastPos(in, KeyOf(out[i]))]

\* values 1 then 2 at one key yield exactly one sample, with value 2
C5_Witness ==
  /\ fn.op = "dedup"
  /\ Len(fn.samples) = 2
  /\ KeyOf(fn.samples[1]) = KeyOf(fn.samples[2])
  /\ fn.samples[1].value = Fin(1)
  /\ fn.samples[2].value = Fin(2)
  /\ Len(fn.out.rows) = 1
  /\ fn.out.rows[1].value = Fin(2)

(***************************************************************************)
(* C11: record-level failures never abort a window.  For every page of raw *)
(* records, a record with a missing point name, an unparsable timestamp or *)
(* a non-numeric value is skipped without ending the loop, and every valid *)
(* record of the page (for transform_samples: one whose name the point     *)
(* cache resolves) is normalized and output, in the order of the page.     *)
(***************************************************************************)
RecordName(r) == FirstNonEmpty(r.name, r.point, r.point_name)

\* a missing name, an unparsable or missing timestamp, or a value that is no
\* number
FailingRecord(r) ==
  \/ RecordName(r) = ""
  \/ TimeField(r).k \in {"bad", "none"}
  \/ ~PyFloat(r.value).ok

\* a name, a timestamp and a finite number
ValidRecord(r) ==
  /\ RecordName(r) # ""
  /\ TimeField(r).k \in {"int", "iso"}
  /\ PyFloat(r.value).ok
  /\ IsFinite(PyFloat(r.value).f)

Resolved(r) ==
  fn.op = "parse" \/ (RecordName(r) \in DOMAIN fn.point_cache)

\* the k-th output is the normalized form of the record it came from
NormalizedFrom(k) ==
  LET r == fn.raw[fn.out.kept[k]]
      o == fn.out.rows[k]
  IN /\ o.value = PyFloat(r.value).f
     /\ IF fn.op = "parse"
        THEN o.point_name = RecordName(r) /\ o.timestamp = TimeField(r).ms
        ELSE o.point_id = fn.point_cache[RecordName(r)] /\ o.ts.ms = TimeField(r).ms

C11_RecordFailuresNeverAbort ==
  fn.op \in {"transform", "parse"} =>
    /\ Len(fn.out.rows) = Len(fn.out.kept)
    /\ \A i \in 1..Len(fn.raw) :
         /\ FailingRecord(fn.raw[i]) => i \notin Range(fn.out.kept)
         /\ (ValidRecord(fn.raw[i]) /\ Resolved(fn.raw[i])) => i \in Range(fn.out.kept)
    /\ \A k \in 1..Len(fn.out.kept) : NormalizedFrom(k)
    /\ \A j, k \in 1..Len(fn.out.kept) : j < k => fn.out.kept[j] < fn.out.kept[k]

\* the parsing loop met a record it skipped and then output a valid one
C11_Witness ==
  /\ fn.op = "parse"
  /\ Len(fn.raw) = 2
  /\ FailingRecord(fn.raw[1])
  /\ ValidRecord(fn.raw[2])
  /\ fn.out.kept = <<2>>
  /\ fn.out.rows[1].point_name = RecordName(fn.raw[2])

(***************************************************************************)
(* C15: rejections are counted, not fatal.  A single raw record whose      *)
(* value is the string "nan" yields no sample to write and a rejection     *)
(* count of 1; in general the rejection count equals the number of raw     *)
(* records that did not become canonical samples.                          *)
(***************************************************************************)
C15_RejectionsCounted ==
  fn.op \in {"transform", "parse"} =>
    /\ fn.out.skipped = Len(fn.raw) - Len(fn.out.rows)
    /\ (Len(fn.raw) = 1 /\ fn.raw[1].value = StrVal("nan")) =>
         (fn.out.rows = <<>> /\ fn.out.skipped = 1)

\* transform_samples dropped the one record with value "nan" and counted it
C15_Witness ==
  /\ fn.op = "transform"
  /\ Len(fn.raw) = 1
  /\ fn.raw[1].value = StrVal("nan")
  /\ fn.out.rows = <<>>
  /\ fn.out.skipped = 1

(***************************************************************************)
(* The writers on drawn inputs: a store state, a point cache (the one      *)
(* loaded from the store, or an empty one: stale, when another run created *)
(* points since), a list of samples, and up to two calls of the writer     *)
(* with the same samples.                                                  *)
(***************************************************************************)
PointRow(site, name, id) == [site_name |-> site, name |-> name, id |-> id]
TsRow(id, ms, v) == [point_id |-> id, ts |-> ms, value |-> v]
MkStore(points, nextId, timeseries) ==
  [points |-> points, nextId |-> nextId, timeseries |-> timeseries,
   ingest_state |-> {}]

WrStores ==
  {MkStore({}, 1, {}),
   MkStore({PointRow("s1", "a", 1)}, 2, {}),
   MkStore({PointRow("s1", "a", 1)}, 2, {TsRow(1, 1000, Fin(1))}),
   MkStore({PointRow("s1", "a", 1), PointRow("s1", "b", 2)}, 3,
           {TsRow(1, 1000, Fin(2)), TsRow(2, 1000, Fin(1))})}

Sample(n, ms, v) == [point_name |-> n, timestamp |-> ms, value |-> v]
ScriptSamples ==
  {Sample("a", 1000, Fin(1)), Sample("a", 1000, Fin(2)), Sample("a", 1999, Fin(2)),
   Sample("a", 2000, Fin(1)), Sample("b", 1000, Fin(1)), Sample("a", 1000, NaN),
   Sample("", 1000, Fin(1))}

FunctionSamples ==
  [point_id : {1}, ts : {TsStr(1000, "offset"), TsStr(1000, "naive"), TsStr(2000, "offset")},
   value : {Fin(1), Fin(2)}]
  \cup {[point_id |-> 2, ts |-> TsStr(1000, "offset"), value |-> Fin(1)]}

\* the store calls that may fail in the first call of a writer; the second
\* call, the repetition, is answered as the store's state dictates
WrFailSets(n) ==
  IF n = 0 THEN {{}} \cup {{i} : i \in 1..6} \cup {{i, i + 1} : i \in 1..5}
  ELSE {{}}

InitWr ==
  /\ store \in WrStores
  /\ \/ \E l \in SeqsUpTo(ScriptSamples, MaxLen + 1),
           c \in {PointsSelect(store.points, "s1", Names), << >>} :
          wr = [kind |-> "script", samples |-> l, point_cache |-> c,
                stale |-> c # PointsSelect(store.points, "s1", Names), n |-> 0,
                ret |-> <<>>, after |-> <<>>, handed |-> {}, faults |-> FALSE,
                status |-> "ok", accepted |-> <<>>]
     \/ \E l \in SeqsUpTo(FunctionSamples, MaxLen + 1) :
          wr = [kind |-> "function", samples |-> l, point_cache |-> << >>,
                stale |-> FALSE, n |-> 0,
                ret |-> <<>>, after |-> <<>>, handed |-> {}, faults |-> FALSE,
                status |-> "ok", accepted |-> <<>>]
  /\ fn = Unused
  /\ bf = Unused
  /\ sy = Unused

WrDone(w, env) ==
  /\ store' = StoreOf(w)
  /\ wr' = [wr EXCEPT !.n = @ + 1, !.ret = Append(@, w.ret),
                      !.after = Append(@, w.timeseries),
                      !.point_cache = w.point_cache,
                      !.handed = @ \cup w.handed,
                      !.faults = @ \/ env.fail # {},
                      !.status = w.status,
                      !.accepted = Append(@, w.accepted)]
  /\ UNCHANGED <<fn, bf, sy>>

\* upsert_timeseries(client, "s1", samples, point_cache) of the script
WrScriptCall ==
  /\ wr.kind = "script"
  /\ wr.n < 2
  /\ wr.status = "ok"
  /\ \E f \in WrFailSets(wr.n) :
       LET env == [fail |-> f, cut |-> -1]
       IN WrDone(upsert_timeseries(World(store, wr.point_cache), env, "s1", wr.samples), env)

\* supabase_client.upsert_timeseries(samples) of main.py
WrFunctionCall ==
  /\ wr.kind = "function"
  /\ wr.n < 2
  /\ \E f \in WrFailSets(wr.n) :
       LET env == [fail |-> f, cut |-> -1]
       IN WrDone(SupabaseClient_upsert_timeseries(World(store, wr.point_cache), env, wr.samples), env)

NextWr == WrScriptCall \/ WrFunctionCall

SpecWr == InitWr /\ [][NextWr]_vars

(***************************************************************************)
(* C1: idempotence of the write path.  For every list of samples and every *)
(* initial store state, calling the writer twice with the same samples     *)
(* leaves the timeseries table with exactly the rows (keys and values) it  *)
(* has after calling it once.  Both writers; the point cache is the one    *)
(* loaded from the store, as run_backfill passes it, and the store's calls *)
(* are answered as the store's state dictates.                             *)
(***************************************************************************)
C1_WriteIdempotent ==
  (wr.n = 2 /\ ~wr.faults /\ ~wr.stale) => wr.after[2] = wr.after[1]

\* a second call of the script's writer that met the rows of the first: its
\* insert was rejected and the smaller upserts re-applied the same samples
C1_Witness ==
  /\ wr.kind = "script"
  /\ wr.n = 2
  /\ ~wr.faults
  /\ ~wr.stale
  /\ Len(wr.samples) = 3
  /\ Cardinality(wr.after[1]) >= 2
  /\ wr.after[2] = wr.after[1]
  /\ wr.ret[2] >= 2

(***************************************************************************)
(* C16: last-write-wins at the storage layer.  If the store holds a row    *)
(* (point_id, ts) with value v1 and the writer is given a sample of the    *)
(* same identity with value v2 # v1, then after the write the store holds  *)
(* exactly one row of that identity, with value v2.  Both writers; where   *)
(* the script is given several samples of the identity, v2 is the value of *)
(* the last; the writer of main.py is given each identity once, as         *)
(* sync_site does.  (No store call fails for a reason of the store's own.) *)
(***************************************************************************)
\* the samples of the list that have the identity key = <<point_id, instant>>
IncomingAt(key) ==
  IF wr.kind = "script"
  THEN SelectSeq(wr.samples,
         LAMBDA x : /\ IsFinite(x.value)
                    /\ parse_iso(iso(x.timestamp)) = key[2]
                    /\ \E p \in store.points :
                         p.site_name = "s1" /\ p.name = x.point_name /\ p.id = key[1])
  ELSE SelectSeq(wr.samples, LAMBDA x : DbKey(x) = key)

FirstCleanWrite ==
  /\ wr.n = 0
  /\ wr'.n = 1
  /\ ~wr'.faults
  /\ wr.kind = "function" => ~RepeatsKey(wr.samples)

WriterBatches ==
  IF wr.kind = "script"
  THEN chunk(DictValues(PrepareRows(wr.samples, wr.point_cache), <<>>), InsertBatch)
  ELSE chunk(wr.samples, UpsertBatch)

C19_WriterNeverRaises ==
  wr.n >= 1 =>
    /\ wr.status = "ok"
    /\ \A k \in 1..wr.n : wr.ret[k] = wr.accepted[k]
    /\ wr.n = 1 => Range(WriterBatches) \subseteq wr.handed

\* the first of two batches of main.py's writer failed: the second was
\* applied and the count is its length
C19_Witness ==
  /\ wr.kind = "function"
  /\ wr.n = 1
  /\ wr.faults
  /\ wr.status = "ok"
  /\ Len(wr.samples) = 3
  /\ Cardinality(wr.handed) = 2
  /\ wr.ret = <<1>>
  /\ wr.accepted = <<1>>

(***************************************************************************)
(* C30: sample identity has millisecond precision.  Two valid samples of   *)
(* the same point whose timestamps differ by at least one millisecond have *)
(* distinct (point_id, timestamp) identities: both survive deduplication   *)
(* and both are stored as separate rows.  (The script's writer; no store   *)
(* call fails.)                                                            *)
(***************************************************************************)
ValidSample(smp) == smp.point_name # "" /\ IsFinite(smp.value)

\* the rows of the table after the call that can be the row of the sample:
\* those of its point at its instant, or at the whole second of its instant
RowsOf(smp) ==
  {row \in wr.after[1] :
     /\ smp.point_name \in DOMAIN wr.point_cache
     /\ row.point_id = wr.point_cache[smp.point_name]
     /\ row.ts \in {smp.timestamp, (smp.timestamp \div MsPerSecond) * MsPerSecond}}

C30_MillisecondIdentity ==
  (wr.kind = "script" /\ wr.n >= 1 /\ ~wr.faults /\ wr.status = "ok") =>
    \A i, j \in 1..Len(wr.samples) :
       (/\ ValidSample(wr.samples[i])
        /\ ValidSample(wr.samples[j])
        /\ wr.samples[i].point_name = wr.samples[j].point_name
        /\ wr.samples[i].timestamp - wr.samples[j].timestamp >= 1)
       => \E r1 \in RowsOf(wr.samples[i]), r2 \in RowsOf(wr.samples[j]) : r1 # r2

\* two samples of point a, 999 ms apart, were written to an empty table: one
\* row
C30_Witness ==
  /\ wr.kind = "script"
  /\ wr.n = 1
  /\ ~wr.faults
  /\ wr.status = "ok"
  /\ wr.samples = <<Sample("a", 1000, Fin(1)), Sample("a", 1999, Fin(2))>>
  /\ Cardinality(wr.after[1]) = 1
  /\ wr.ret = <<1>>

(***************************************************************************)
(* C32: one duplicate never blocks a batch.  When a batch insert is        *)
(* rejected because one of its rows is already stored, every row of the    *)
(* batch is applied again through the smaller conflict-aware upserts:      *)
(* after the write every row of the batch is in the store with the         *)
(* incoming value: every row of every batch handed to the store is stored *)
(* after the call.  (The script's writer; no store call fails for a reason *)
(* of the store's own.)                                                    *)
(***************************************************************************)
C32_DuplicateNeverBlocksBatch ==
  (wr.kind = "script" /\ wr.n >= 1 /\ ~wr.faults /\ wr.status = "ok") =>
    \A batch \in wr.handed :
       \A i \in 1..Len(batch) : DbRow(batch[i]) \in wr.after[wr.n]

\* a batch of a stored row and a new one: the insert was rejected, the two
\* upserts wrote both rows, beside the stored row of another point
C32_Witness ==
  /\ wr.kind = "script"
  /\ wr.n = 1
  /\ ~wr.faults
  /\ wr.samples = <<Sample("a", 1000, Fin(1)), Sample("a", 2000, Fin(1))>>
  /\ Cardinality(wr.handed) = 3
  /\ wr.after[1] = {TsRow(1, 1000, Fin(1)), TsRow(1, 2000, Fin(1)), TsRow(2, 1000, Fin(1))}
  /\ wr.ret = <<2>>

(***************************************************************************)
(* functions/main.py: the HTTP entry points continuous_sync and            *)
(* backfill_historical driving sync_site, one fetched page at a time.      *)
(*   pc  "idle"     no request yet                                         *)
(*       "begin"    sync_site called for sites[idx]                        *)
(*       "loop"     at the head of the while loop                          *)
(*       "fetched"  fetch_timeseries_page returned sy.page                 *)
(*       "respond"  the loop over the sites ended                          *)
(*       "done"     the response was returned                              *)
(***************************************************************************)
default_site == "s1"

SyncStores ==
  {MkStore({}, 1, {}),
   MkStore({PointRow("s1", "a", 1)}, 2, {TsRow(1, 1000, Fin(2))}),
   MkStore({PointRow("s1", "a", 1), PointRow("s2", "a", 2)}, 3, {})}

SyncLists ==
  {<<>>,
   <<BaseRaw, [BaseRaw EXCEPT !.value = NumVal(Fin(2))]>>,
   <<BaseRaw, [BaseRaw EXCEPT !.time = IntTime(1000), !.value = NumVal(Fin(2))]>>,
   <<[BaseRaw EXCEPT !.value = StrVal("Infinity")]>>,
   <<[BaseRaw EXCEPT !.value = StrVal("nan")], Raw("", "b", "", IntTime(1000), StrVal("2"))>>,
   <<Raw("", "", "b", IsoTime(2000), NumVal(Fin(1)))>>}

SyncPages ==
  {Page(l, "c1", "", FALSE) : l \in SyncLists}
  \cup {Page(<<>>, "", "", FALSE), Page(<<BaseRaw>>, "", "", FALSE),
        Page(<<>>, "", "ACE API request error", FALSE),
        Page(<<BaseRaw>>, "", "", TRUE)}

\* what the upstream can answer for a site: any of the pages for s1, a last
\* page or a failure for the others
PagesOf(site) ==
  IF site = default_site THEN SyncPages
  ELSE {q \in SyncPages : q.next_cursor = "" /\ (q.error # "" \/ Len(q.samples) < 2)}

NoPage == Page(<<>>, "", "", FALSE)
NoResult ==
  [site |-> "", samples |-> 0, inserted |-> 0, unique_points |-> 0, pages |-> 0,
   error |-> ""]
NoResponse == [status |-> 0, success |-> FALSE, error |-> ""]

Locals(site) ==
  [site |-> site, total_samples |-> 0, total_inserted |-> 0, pages_fetched |-> 0,
   cursor |-> "", unique_points |-> {}, result |-> NoResult]

\* the JSON body of a backfill_historical request: "" is a key that is absent,
\* null or empty
NoRequest == [site |-> "", start_date |-> "", end_date |-> ""]
Requests ==
  [site : Sites \cup {""}, start_date : {"", "2024-01-01", "yesterday"},
   end_date : {"", "2024-01-31"}]

\* datetime.fromisoformat accepts the date
ParsesAsDate(d) == d \in {"2024-01-01", "2024-01-31"}

\* config_loaded: load_config() was called; fault: a store call failed while
\* the last page was processed
SyIdle ==
  [entry |-> "", pc |-> "idle", sites |-> <<>>, idx |-> 0, max_pages |-> 0,
   point_cache |-> << >>, l |-> Locals(""), page |-> NoPage, results |-> <<>>,
   response |-> NoResponse, fetches |-> 0, handed |-> {},
   request |-> NoRequest, config_loaded |-> FALSE, fault |-> FALSE]

InitSync ==
  /\ store \in SyncStores
  /\ sy = SyIdle
  /\ fn = Unused
  /\ wr = Unused
  /\ bf = Unused

\* continuous_sync up to the loop over the sites: a fresh client, and the
\* sites of the points table (in some order) or the default site
ContinuousSync ==
  /\ sy.pc = "idle"
  /\ \E db_ok \in BOOLEAN :
       LET found == IF db_ok THEN get_sites_from_db(store.points) ELSE {}
           siteSet == IF found = {} THEN {default_site} ELSE found
       IN \E order \in [1..Cardinality(siteSet) -> siteSet] :
            /\ Range(order) = siteSet
            /\ sy' = [SyIdle EXCEPT !.entry = "continuous_sync", !.pc = "begin",
                                    !.sites = order, !.idx = 1,
                                    !.max_pages = MaxPages, !.config_loaded = TRUE]
  /\ UNCHANGED <<fn, store, wr, bf>>

\* a variant that goes on to sync_site without looking at the dates
BackfillUnvalidated(request) ==
  [SyIdle EXCEPT !.entry = "backfill_historical", !.pc = "begin",
     !.request = request, !.config_loaded = TRUE,
     !.sites = <<IF request.site = "" THEN default_site ELSE request.site>>,
     !.idx = 1, !.max_pages = MaxPages]

\* backfill_historical up to its call of sync_site: a request without
\* start_date or end_date is answered 400 before anything else is done, one
\* whose dates do not parse is answered 400 after load_config()
BackfillRequest(request) ==
  IF request.start_date = "" \/ request.end_date = ""
  THEN [SyIdle EXCEPT !.entry = "backfill_historical", !.pc = "done",
          !.request = request,
          !.response = [status |-> 400, success |-> FALSE,
            error |-> "Missing required parameters: start_date and end_date"]]
  ELSE IF ~(ParsesAsDate(request.start_date) /\ ParsesAsDate(request.end_date))
  THEN [SyIdle EXCEPT !.entry = "backfill_historical", !.pc = "done",
          !.request = request, !.config_loaded = TRUE,
          !.response = [status |-> 400, success |-> FALSE,
                        error |-> "Invalid date format"]]
  ELSE [SyIdle EXCEPT !.entry = "backfill_historical", !.pc = "begin",
          !.request = request, !.config_loaded = TRUE,
          !.sites = <<IF request.site = "" THEN default_site ELSE request.site>>,
          !.idx = 1, !.max_pages = MaxPages]

BackfillHistorical ==
  /\ sy.pc = "idle"
  /\ \E request \in Requests : sy' = BackfillRequest(request)
  /\ UNCHANGED <<fn, store, wr, bf>>

\* sync_site up to its loop: load_point_cache and the zeroed totals
SyncSiteBegin ==
  /\ sy.pc = "begin"
  /\ \E f \in {{}, {1}} :
       LET w == load_point_cache(World(store, sy.point_cache),
                                 [fail |-> f, cut |-> -1], sy.sites[sy.idx])
       IN sy' = [sy EXCEPT !.pc = "loop", !.point_cache = w.point_cache,
                           !.l = Locals(sy.sites[sy.idx]), !.page = NoPage,
                           !.fetches = 0]
  /\ UNCHANGED <<fn, store, wr, bf>>

\* a variant of continuous_sync that gives up its loop at the first site with
\* an error
AfterSiteStopsAtError(s, result, raised) ==
  IF s.entry = "continuous_sync"
  THEN [s EXCEPT !.results = Append(@, result),
                 !.pc = IF s.idx < Len(s.sites) /\ result.error = ""
                        THEN "begin" ELSE "respond",
                 !.idx = IF s.idx < Len(s.sites) /\ result.error = "" THEN @ + 1 ELSE @,
                 !.page = NoPage]
  ELSE IF raised
  THEN [s EXCEPT !.pc = "done", !.page = NoPage,
                 !.response = [status |-> 500, success |-> FALSE, error |-> result.error]]
  ELSE [s EXCEPT !.results = Append(@, result), !.pc = "respond", !.page = NoPage]

\* what follows sync_site's return or raise at an entry point
AfterSite(s, result, raised) ==
  IF s.entry = "continuous_sync"
  THEN [s EXCEPT !.results = Append(@, result),
                 !.pc = IF s.idx < Len(s.sites) THEN "begin" ELSE "respond",
                 !.idx = IF s.idx < Len(s.sites) THEN @ + 1 ELSE @,
                 !.page = NoPage]
  ELSE IF raised
  THEN [s EXCEPT !.pc = "done", !.page = NoPage,
                 !.response = [status |-> 500, success |-> FALSE, error |-> result.error]]
  ELSE [s EXCEPT !.results = Append(@, result), !.pc = "respond", !.page = NoPage]

\* the result continuous_sync records for a site whose sync_site raised
RaisedResult(site) == [NoResult EXCEPT !.site = site, !.error = "exception"]

\* the while condition holds: fetch_timeseries_page is called
SyncFetch ==
  /\ sy.pc = "loop"
  /\ sy.l.pages_fetched < sy.max_pages
  /\ \E page \in PagesOf(sy.l.site) :
       sy' = [sy EXCEPT !.pc = "fetched", !.page = page, !.fetches = @ + 1,
                        !.handed = {}]
  /\ UNCHANGED <<fn, store, wr, bf>>

\* the while condition fails: sync_site returns its totals
SyncLoopExit ==
  /\ sy.pc = "loop"
  /\ sy.l.pages_fetched >= sy.max_pages
  /\ sy' = AfterSite(sy, SyncResult(sy.l, ""), FALSE)
  /\ UNCHANGED <<fn, store, wr, bf>>

\* the rest of the loop body for the fetched page
SyncProcess ==
  /\ sy.pc = "fetched"
  /\ \E f \in {{}, {1}, {2}, {3}} :
       LET r == SyncPageStep(World(store, sy.point_cache), [fail |-> f, cut |-> -1],
                             sy.l, sy.page)
           s1 == [sy EXCEPT !.l = r.l, !.point_cache = r.w.point_cache,
                            !.handed = r.w.handed,
                            !.fault = \E k \in f : k <= r.w.calls]
       IN /\ store' = StoreOf(r.w)
          /\ sy' = CASE r.out = "return" -> AfterSite(s1, r.l.result, FALSE)
                     [] r.out = "raise" -> AfterSite(s1, RaisedResult(sy.l.site), TRUE)
                     [] r.out = "break" -> AfterSite(s1, SyncResult(r.l, ""), FALSE)
                     [] OTHER -> [s1 EXCEPT !.pc = "loop", !.page = NoPage]
  /\ UNCHANGED <<fn, wr, bf>>

\* the JSON summary of the entry point
SyncRespond ==
  /\ sy.pc = "respond"
  /\ sy' = [sy EXCEPT !.pc = "done",
              !.response =
                IF sy.entry = "continuous_sync"
                THEN [status |-> 200,
                      success |-> Cardinality({i \in 1..Len(sy.results) :
                                                 sy.results[i].error # ""}) = 0,
                      error |-> ""]
                ELSE [status |-> 200, success |-> sy.results[1].error = "",
                      error |-> sy.results[1].error]]
  /\ UNCHANGED <<fn, store, wr, bf>>

NextSync ==
  \/ ContinuousSync
  \/ BackfillHistorical
  \/ SyncSiteBegin
  \/ SyncFetch
  \/ SyncLoopExit
  \/ SyncProcess
  \/ SyncRespond

SpecSync == InitSync /\ [][NextSync]_vars

(***************************************************************************)
(* C3: non-finite values are never persisted.  No row handed to a          *)
(* timeseries insert or upsert has the value NaN, +Infinity or -Infinity.  *)
(***************************************************************************)
AllFinite(handed) ==
  \A batch \in handed : \A i \in 1..Len(batch) : IsFinite(batch[i].value)

C3_NoNonFiniteRowHanded == AllFinite(sy.handed)

\* sync_site handed a row to the timeseries upsert
C3_Witness == sy.handed # {}

(***************************************************************************)
(* C10: in rolling mode a fetch failure is a run failure.  When            *)
(* fetch_timeseries_page reports an error, sync_site issues no further     *)
(* fetch and no further write and returns the totals accumulated so far    *)
(* together with the error, and the entry point reports success = false.   *)
(***************************************************************************)
FetchErrorPending == sy.pc = "fetched" /\ sy.page.error # ""

\* the result of the sync_site call that just ended, after the step
ReturnedResult ==
  IF sy.entry = "continuous_sync" THEN sy'.results[Len(sy.results) + 1]
  ELSE sy'.results[1]

C10_FetchErrorEndsSyncSite ==
  /\ [][FetchErrorPending =>
          /\ store' = store
          /\ sy'.handed = sy.handed
          /\ sy'.pc \in {"begin", "respond"}
          /\ Len(sy'.results) = Len(sy.results) + 1
          /\ ReturnedResult.site = sy.l.site
          /\ ReturnedResult.samples = sy.l.total_samples
          /\ ReturnedResult.inserted = sy.l.total_inserted
          /\ ReturnedResult.pages = sy.l.pages_fetched
          /\ ReturnedResult.error = sy.page.error]_vars
  /\ [](sy.pc = "done" /\ (\E i \in 1..Len(sy.results) : sy.results[i].error # "")
          => ~sy.response.success)

\* a fetch error on the second page, after a first page was written, answered
\* with success = false
C10_Witness ==
  /\ sy.pc = "done"
  /\ Len(sy.results) >= 1
  /\ sy.results[1].error = "ACE API request error"
  /\ sy.results[1].pages = 1
  /\ sy.results[1].inserted >= 1
  /\ ~sy.response.success

(***************************************************************************)
(* C14: lazy point creation.  Processing a valid raw record whose point    *)
(* name is not yet known for the site, starting from an empty identity     *)
(* cache, creates exactly one Point row (site, name) and writes one sample *)
(* row carrying that point's identifier; further records never create a   *)
(* second Point row for a (site, name).  (No store call fails while the    *)
(* page is processed.)                                                     *)
(***************************************************************************)
PointRowsOf(st, site, name) ==
  {p \in st.points : p.site_name = site /\ p.name = name}

\* sync_site is about to process a page of records, with the empty cache of
\* a site that has no Point row yet
ProcessingFromEmptyCache ==
  /\ sy.pc = "fetched"
  /\ sy.page.error = ""
  /\ ~sy.page.malformed
  /\ sy.point_cache = << >>
  /\ {p \in store.points : p.site_name = sy.l.site} = {}

\* after the step: one Point row for the record's name, and a sample row with
\* its identifier at the record's instant; the only one when the page holds
\* the one record
CreatedAndWritten(r) ==
  LET made == PointRowsOf(store', sy.l.site, RecordName(r))
  IN /\ Cardinality(made) = 1
     /\ \A p \in made :
          /\ \E row \in store'.timeseries :
               row.point_id = p.id /\ row.ts = TimeField(r).ms
          /\ Len(sy.page.samples) = 1 =>
               Cardinality({row \in store'.timeseries : row.point_id = p.id}) = 1

C14_LazyPointCreation ==
  /\ [][(ProcessingFromEmptyCache /\ ~sy'.fault) =>
          \A i \in 1..Len(sy.page.samples) :
             (/\ ValidRecord(sy.page.samples[i])
              /\ PointRowsOf(store, sy.l.site, RecordName(sy.page.samples[i])) = {})
               => CreatedAndWritten(sy.page.samples[i])]_vars
  /\ [](\A p, q \in store.points :
          (p.site_name = q.site_name /\ p.name = q.name) => p = q)

\* a page with one valid record of an unknown name was processed from an empty
\* cache: one Point row and one sample row
C14_Witness ==
  /\ sy.entry = "backfill_historical"
  /\ sy.pc = "respond"
  /\ ~sy.fault
  /\ sy.l.pages_fetched = 1
  /\ sy.l.total_samples = 1
  /\ sy.l.total_inserted = 1
  /\ Cardinality(store.points) = 1
  /\ Cardinality(store.timeseries) = 1
  /\ \A p \in store.points : \A row \in store.timeseries : row.point_id = p.id

(***************************************************************************)
(* C33: field aliases are honoured end to end.  The name of a record is    *)
(* the first non-empty of name, point and point_name, and every name of a  *)
(* fetched page is seeded into the cache before the transformation: when   *)
(* sync_site processes a page, a valid record that names a point without a *)
(* Point row only under point_name has its point created and its sample    *)
(* written, as a record using name has.  (No store call fails while the    *)
(* page is processed.)                                                     *)
(***************************************************************************)
OnlyPointName(r) == r.name = "" /\ r.point = "" /\ r.point_name # ""

ProcessingPage ==
  /\ sy.pc = "fetched"
  /\ sy.page.error = ""
  /\ ~sy.page.malformed

SeededAndWritten(r) ==
  \E p \in PointRowsOf(store', sy.l.site, RecordName(r)) :
     \E row \in store'.timeseries : row.point_id = p.id /\ row.ts = TimeField(r).ms

C33_AliasesEndToEnd ==
  [][(ProcessingPage /\ ~sy'.fault) =>
       \A i \in 1..Len(sy.page.samples) :
          (/\ ValidRecord(sy.page.samples[i])
           /\ OnlyPointName(sy.page.samples[i]))
            => SeededAndWritten(sy.page.samples[i])]_vars

\* a page with one valid record named under point_name was processed: the
\* record was counted, its name was not tracked, no Point row was made for it
\* and nothing was written
C33_Witness ==
  /\ sy.entry = "backfill_historical"
  /\ ~sy.fault
  /\ sy.l.pages_fetched = 1
  /\ sy.l.total_samples = 1
  /\ sy.l.total_inserted = 0
  /\ sy.l.unique_points = {}
  /\ PointRowsOf(store, sy.l.site, "b") = {}
  /\ store.timeseries \subseteq {TsRow(1, 1000, Fin(2))}

(***************************************************************************)
(* C37: no batch repeats a conflict key.  Every batch of rows handed to a  *)
(* timeseries insert or upsert call holds at most one row per              *)
(* (point_id, ts), for every list of samples: deduplication precedes       *)
(* batching.  The key is the one the store compares: the point and the     *)
(* instant the ts string denotes.                                          *)
(***************************************************************************)
C37_NoBatchRepeatsKey == \A batch \in sy.handed : ~RepeatsKey(batch)

\* sync_site handed one batch of two rows of point 1 at one instant, written
\* once with an offset and once without
C37_Witness ==
  /\ sy.entry = "continuous_sync"
  /\ ~sy.fault
  /\ sy.l.total_samples = 2
  /\ sy.l.total_inserted = 0
  /\ sy.handed = {<<[point_id |-> 1, ts |-> TsStr(1000, "offset"), value |-> Fin(1)],
                    [point_id |-> 1, ts |-> TsStr(1000, "naive"), value |-> Fin(2)]>>}

(***************************************************************************)
(* C38: site integrity of written rows.  Every timeseries row written      *)
(* while site S is processed carries the point_id of a Point row that      *)
(* belongs to S and whose name is the sample's point name; samples whose   *)
(* name resolves to no identifier are dropped; and in the loop of          *)
(* continuous_sync the cache used for S never holds an entry loaded or     *)
(* created for another site, also when the cache load for S fails.         *)
(***************************************************************************)
\* every entry of the cache is the Point row of its name at the site
CacheOfSite(cache, st, site) ==
  \A n \in DOMAIN cache :
     \E p \in PointRowsOf(st, site, n) : p.id = cache[n]

\* the row was made of a record of the page, with the id of the record's
\* name at the site
RowOfSite(row, records, st, site) ==
  \E i \in 1..Len(records) :
     /\ TimeField(records[i]).k \in {"int", "iso"}
     /\ TimeField(records[i]).ms = row.ts.ms
     /\ \E p \in PointRowsOf(st, site, RecordName(records[i])) : p.id = row.point_id

C38_SiteIntegrity ==
  /\ [](sy.pc \in {"loop", "fetched"} => CacheOfSite(sy.point_cache, store, sy.l.site))
  /\ [][sy.pc = "fetched" =>
          \A batch \in sy'.handed :
             \A k \in 1..Len(batch) :
                RowOfSite(batch[k], sy.page.samples, store', sy.l.site)]_vars

\* continuous_sync came to its second site, s2, after it had worked on s1 with
\* a cache that held s1's point a; the load for s2 failed and left the cache
\* empty
C38_Witness ==
  /\ sy.entry = "continuous_sync"
  /\ Len(sy.sites) = 2
  /\ sy.idx = 2
  /\ sy.pc = "loop"
  /\ sy.l.site = "s2"
  /\ sy.results[1].inserted = 1
  /\ PointRowsOf(store, "s2", "a") # {}
  /\ sy.point_cache = << >>

(***************************************************************************)
(* C21: continuous_sync isolates sites.  Every site of the list is         *)
(* processed in sequence, also after an earlier site raised or returned an *)
(* error: the response carries one result per site, in the order of the    *)
(* list, each with its site's error if any, and success is true exactly    *)
(* when no result carries an error.                                        *)
(***************************************************************************)
SiteErrors(results) == {i \in 1..Len(results) : results[i].error # ""}

C21_SitesIsolated ==
  (sy.entry = "continuous_sync" /\ sy.pc = "done") =>
    /\ Len(sy.results) = Len(sy.sites)
    /\ \A i \in 1..Len(sy.sites) : sy.results[i].site = sy.sites[i]
    /\ sy.response.status = 200
    /\ sy.response.success = (SiteErrors(sy.results) = {})

\* the first of two sites raised, the second was then synced and wrote a row
C21_Witness ==
  /\ sy.entry = "continuous_sync"
  /\ sy.pc = "done"
  /\ Len(sy.sites) = 2
  /\ sy.results[1] = RaisedResult(sy.sites[1])
  /\ sy.results[2].error = ""
  /\ sy.results[2].pages = 1
  /\ sy.results[2].inserted = 1
  /\ ~sy.response.success

(***************************************************************************)
(* C20: backfill_historical validates before acting.  A request lacking    *)
(* start_date or end_date is answered with status 400, success = false and *)
(* an error naming the missing required parameters; load_config() is not   *)
(* called for it, no page is fetched from the upstream, nothing is handed  *)
(* to the store and the store is left as it was.                           *)
(***************************************************************************)
LacksDates(s) ==
  /\ s.entry = "backfill_historical"
  /\ (s.request.start_date = "" \/ s.request.end_date = "")

C20_ValidatesBeforeActing ==
  /\ [](LacksDates(sy) =>
          /\ sy.pc = "done"
          /\ sy.response = [status |-> 400, success |-> FALSE,
                error |-> "Missing required parameters: start_date and end_date"]
          /\ ~sy.config_loaded
          /\ sy.fetches = 0
          /\ sy.handed = {}
          /\ sy.results = <<>>)
  /\ [][LacksDates(sy') => store' = store]_vars

\* a request with a start_date and no end_date was answered
C20_Witness ==
  /\ sy.entry = "backfill_historical"
  /\ sy.request.start_date = "2024-01-01"
  /\ sy.request.end_date = ""
  /\ sy.pc = "done"
  /\ sy.response.status = 400
  /\ ~sy.response.success
  /\ ~sy.config_loaded

(***************************************************************************)
(* backfill_paginated_raw.py: the upstream and fetch_paginated_window.     *)
(* The upstream holds a list of raw records for the site; for a window it  *)
(* serves the records whose instant lies in [start_time, end_time), those  *)
(* of the named points only when it honours point_names, PageRows per      *)
(* page, each page but the last with a continuation cursor.                *)
(***************************************************************************)
WindowRecords(upstream, s_ms, e_ms, filter) ==
  SelectSeq(upstream,
    LAMBDA r : /\ s_ms <= r.time.ms /\ r.time.ms < e_ms
               /\ (filter = {} \/ FirstNonEmpty(r.name, r.point, r.point_name) \in filter))

UpstreamPages(content) ==
  LET cs == chunk(content, PageRows)
  IN IF Len(cs) = 0 THEN <<[rows |-> <<>>, next_cursor |-> ""]>>
     ELSE [i \in 1..Len(cs) |->
             [rows |-> cs[i], next_cursor |-> IF i < Len(cs) THEN "more" ELSE ""]]

\* What goes wrong while a window is fetched: the HTTP requests of page
\* fenv.page of the window's fenv.call-th fetch fail fenv.failures times in a
\* row; the time budget is used up once fenv.budget pages were received
\* (none: -1).  fenv.kind is the way a request fails:
\*   "conn"    no connection or no answer in time (retried by the adapter,
\*             then a requests exception)
\*   "body"    the body breaks off or is no JSON (ChunkedEncodingError,
\*             JSONDecodeError)
\*   "forced"  a status of the adapter's status_forcelist, such as 503
\*             (retried by the adapter, then a RetryError)
\*   "server"  another server error status, such as 501 (resp.ok is false)
\*   "status"  a client error status (resp.ok is false)
NoTrouble == [call |-> 0, page |-> 0, kind |-> "conn", failures |-> 0, budget |-> -1]

TroubleAt(fenv, call, i) == fenv.call = call /\ fenv.page = i /\ fenv.failures > 0

\* the failing requests one session.get takes before it raises
AdapterRetries(kind) ==
  CASE kind = "conn" -> ConnectRetries
    [] kind = "forced" -> TotalRetries
    [] OTHER -> 0

\* the session.get calls that fail in a row
FailedAttempts(fenv) == fenv.failures \div (AdapterRetries(fenv.kind) + 1)

\* the except clause: requests exceptions and JSONDecodeError; the
\* RuntimeError raised for a status that is not ok is not among them
Caught(kind) == kind \in {"conn", "body", "forced"}

\* for attempt in range(4): the caught failures are retried and the last is
\* raised; an uncaught one leaves the function at once
PageRaises(fenv, call, i) ==
  /\ TroubleAt(fenv, call, i)
  /\ FailedAttempts(fenv) >= 1
  /\ (~Caught(fenv.kind) \/ FailedAttempts(fenv) >= Attempts)

\* the session.get calls made for page i
PageRequests(fenv, call, i) ==
  IF ~TroubleAt(fenv, call, i) THEN 1
  ELSE IF ~Caught(fenv.kind) THEN 1
  ELSE IF FailedAttempts(fenv) >= Attempts THEN Attempts
  ELSE FailedAttempts(fenv) + 1

\* the time.sleep calls made for page i: one after each caught failure
PageSleeps(fenv, call, i) ==
  IF ~TroubleAt(fenv, call, i) \/ ~Caught(fenv.kind) THEN 0
  ELSE IF FailedAttempts(fenv) >= Attempts THEN Attempts
  ELSE FailedAttempts(fenv)

\* a variant that never finds the time budget used up
TimeLeftAlwaysEnough(fenv, i) == FALSE

\* if time_left <= 2: break, about to request page i
TimeLeftTooSmall(fenv, i) == fenv.budget >= 0 /\ i > fenv.budget

\* effective_page_size = max(10000, min(int(page_size), 50000))
EffectivePageSize(page_size) == Max(PageFloor, Min(page_size, PageCap))

\* a variant of the downsizing without the floor
ShrinkUnclamped(size) == (size * ShrinkTenths) \div 10

\* the except clause: if effective_page_size > 10000:
\*   effective_page_size = max(10000, int(effective_page_size * 0.6))
Shrink(size) ==
  IF size > PageFloor THEN Max(PageFloor, (size * ShrinkTenths) \div 10) ELSE size

\* the page sizes of n session.get calls in a row, each but the last failing
RECURSIVE ShrunkSizes(_, _)
ShrunkSizes(size, n) ==
  IF n = 0 THEN <<>> ELSE <<size>> \o ShrunkSizes(Shrink(size), n - 1)

\* the page size after k caught failures
RECURSIVE ShrunkBy(_, _)
ShrunkBy(size, k) == IF k = 0 THEN size ELSE ShrunkBy(Shrink(size), k - 1)

\* out, the pages counted, the session.get calls (in all and page by page),
\* the sleeps, whether the function raised, whether it stopped on a budget,
\* effective_page_size and the page_size parameter of each session.get call
NoFetch ==
  [out |-> <<>>, pages |-> 0, requests |-> 0, tries |-> <<>>, sleeps |-> 0,
   status |-> "ok", partial |-> FALSE,
   page_size |-> EffectivePageSize(DefaultPageSize), sizes |-> <<>>]

\* the requests of page i
Requested(f, fenv, call, i) ==
  [f EXCEPT !.requests = @ + PageRequests(fenv, call, i),
            !.tries = Append(@, PageRequests(fenv, call, i)),
            !.sleeps = @ + PageSleeps(fenv, call, i),
            !.sizes = @ \o ShrunkSizes(f.page_size, PageRequests(fenv, call, i)),
            !.page_size = ShrunkBy(@, PageSleeps(fenv, call, i))]

\* a variant that lets one more page through
CeilingOnePageLater(pages) == pages > PageCeiling + 1

\* pages += 1; if pages > 200: break
CeilingReached(pages) == pages > PageCeiling

\* a variant in which a page without rows ends the pagination
EmptyPageAlwaysEnds(page) == TRUE

\* a page without rows: cursor = data.get("next_cursor") or None;
\* if not cursor: break
EmptyPageEnds(page) == page.next_cursor = ""

\* the while True loop, about to request page i
RECURSIVE FetchPages(_, _, _, _, _)
FetchPages(ps, fenv, call, i, f) ==
  IF TimeLeftTooSmall(fenv, i) THEN [f EXCEPT !.partial = TRUE]
  ELSE IF PageRaises(fenv, call, i)
  THEN [Requested(f, fenv, call, i) EXCEPT !.status = "raised"]
  ELSE
    LET page == ps[i]
        f1 == Requested(f, fenv, call, i)
    IN IF Len(page.rows) = 0
       THEN IF EmptyPageEnds(page) THEN f1
            ELSE IF CeilingReached(f1.pages + 1)
            THEN [f1 EXCEPT !.pages = @ + 1, !.partial = TRUE]
            ELSE FetchPages(ps, fenv, call, i + 1, [f1 EXCEPT !.pages = @ + 1])
       ELSE LET f2 == [f1 EXCEPT !.out = @ \o ParseRows(page.rows).rows,
                                 !.pages = @ + 1]
            IN IF page.next_cursor = "" THEN f2
               ELSE IF CeilingReached(f2.pages) THEN [f2 EXCEPT !.partial = TRUE]
               ELSE FetchPages(ps, fenv, call, i + 1, f2)

\* fetch_paginated_window(site, start_iso, end_iso, ..., point_names): call is
\* the number of the fetch within its window
fetch_paginated_window(ps, fenv, call) == FetchPages(ps, fenv, call, 1, NoFetch)

\* return out: what the caller is handed is the list of samples and nothing
\* else
ReturnValue(f) == f.out

\* the same with the page_size argument given
FetchWindowOfSize(ps, fenv, call, page_size) ==
  FetchPages(ps, fenv, call, 1,
             [NoFetch EXCEPT !.page_size = EffectivePageSize(page_size)])

(***************************************************************************)
(* backfill_paginated_raw.py: the store helpers of a run.                  *)
(***************************************************************************)

\* load_all_point_ids(client, site): ranges of LoadBatch rows until a short or
\* empty one; a failure propagates
RECURSIVE LoadAllLoop(_, _, _, _)
LoadAllLoop(w, env, site, offset) ==
  IF Killed(w, env) THEN [w EXCEPT !.status = "killed"]
  ELSE IF Fails(w, env) THEN [Asks(w, Ranged(LoadBatch)) EXCEPT !.status = "raised"]
  ELSE LET all == Sorted(SitePointNames(w.points, site))
           data == SubSeq(all, offset + 1,
                          IF offset + LoadBatch < Len(all) THEN offset + LoadBatch
                          ELSE Len(all))
           w1 == [Asks(w, Ranged(LoadBatch)) EXCEPT
                    !.point_cache = PointsSelect(w.points, site, Range(data)) @@ @]
       IN IF Len(data) = 0 THEN Asks(w, Ranged(LoadBatch))
          ELSE IF Len(data) < LoadBatch THEN w1
          ELSE LoadAllLoop(w1, env, site, offset + LoadBatch)

load_all_point_ids(w, env, site) ==
  LoadAllLoop([w EXCEPT !.point_cache = << >>], env, site, 0)

\* the ingest_state row of a site, as a set of at most one backfill_end
CursorRows(ingest_state, site) ==
  {r.backfill_end : r \in {q \in ingest_state : q.site_name = site}}

\* get_ingest_cursor(client, site): the ISO string, or none on a miss or a
\* failure; left in ret as a set of at most one string
get_ingest_cursor(w, env, site) ==
  IF Killed(w, env) THEN [w EXCEPT !.status = "killed", !.ret = {}]
  ELSE IF Fails(w, env) THEN [Tick(w) EXCEPT !.ret = {}]
  ELSE [Tick(w) EXCEPT !.ret = CursorRows(w.ingest_state, site)]

\* set_ingest_cursor(client, site, end_iso): an upsert on site_name; a failure
\* is swallowed
set_ingest_cursor(w, env, site, end_iso) ==
  IF Killed(w, env) THEN [w EXCEPT !.status = "killed"]
  ELSE IF Fails(w, env) THEN Tick(w)
  ELSE [Tick(w) EXCEPT !.ingest_state =
          {r \in @ : r.site_name # site}
          \cup {[site_name |-> site, backfill_end |-> end_iso]}]

\* get_site_earliest_ts(url, key, site): the earliest stored instant of the
\* site in ms, or none; a set of at most one number
SiteInstants(st, site) ==
  {r.ts : r \in {q \in st.timeseries :
                   \E p \in st.points : p.site_name = site /\ p.id = q.point_id}}
get_site_earliest_ts(w, env, site) ==
  IF Killed(w, env) THEN [w EXCEPT !.status = "killed", !.ret = {}]
  ELSE IF Fails(w, env) THEN [Tick(w) EXCEPT !.ret = {}]
  ELSE LET ts == SiteInstants(w, site)
       IN [Tick(w) EXCEPT !.ret = {t \in ts : \A u \in ts : t <= u}]

(***************************************************************************)
(* backfill_paginated_raw.py: run_backfill and main.  Instants are ms      *)
(* counted from the default --start.  cx is what a run is given:           *)
(*   upstream, supports (the ACE base honours point_names), site, start,   *)
(*   delta (the window length in ms), max_chunks                           *)
(* and b its locals:                                                       *)
(*   window_end, processed, inserted, total_samples_fetched, and as        *)
(*   bookkeeping the windows fetched (their ISO bounds as instants),       *)
(*   whether a fetch raised, whether a fetch was cut short.                *)
(***************************************************************************)
CeilDiv(a, b) == (a + b - 1) \div b

\* get_point_names_from_supabase(client, site): a failure gives no names
get_point_names_from_supabase(w, env, site) ==
  IF Killed(w, env) THEN [w EXCEPT !.status = "killed", !.ret = <<>>]
  ELSE IF Fails(w, env) THEN [Tick(w) EXCEPT !.ret = <<>>]
  ELSE [Tick(w) EXCEPT !.ret = Sorted(SitePointNames(w.points, site))]

\* The fetches of one window, one per chunk of names (a single fetch without
\* names when there are none), each followed by the write of its samples.
\* x tallies the window: the number of the next fetch, the rows written, the
\* samples fetched, whether a fetch was cut short, whether a fetch raised.
RECURSIVE FetchAndWriteLoop(_, _, _, _, _, _, _, _)

\* after the write of the samples of a fetch: the tallies, then the next chunk
NextNameChunk(w1, env, fenv, cx, s_iso, e_iso, chunks, x, f) ==
  LET wrote == Len(f.out) > 0 /\ w1.status = "ok"
  IN FetchAndWriteLoop(w1, env, fenv, cx, s_iso, e_iso, Tail(chunks),
       [x EXCEPT !.call = @ + 1,
                 !.inserted = IF wrote THEN @ + w1.ret ELSE @,
                 !.samples = IF wrote THEN @ + Len(f.out) ELSE @,
                 !.partial = @ \/ f.partial])

\* after a fetch: if samples: ins = upsert_timeseries(...); a raise propagates
WriteFetched(w, env, fenv, cx, s_iso, e_iso, chunks, x, f) ==
  IF f.status = "raised"
  THEN [w |-> [w EXCEPT !.status = "raised"], x |-> [x EXCEPT !.fetch_raised = TRUE]]
  ELSE NextNameChunk(IF Len(f.out) = 0 THEN w
                     ELSE upsert_timeseries(w, env, cx.site, f.out),
                     env, fenv, cx, s_iso, e_iso, chunks, x, f)

FetchAndWriteLoop(w, env, fenv, cx, s_iso, e_iso, chunks, x) ==
  IF Len(chunks) = 0 \/ w.status # "ok" THEN [w |-> w, x |-> x]
  ELSE WriteFetched(w, env, fenv, cx, s_iso, e_iso, chunks, x,
         fetch_paginated_window(
           UpstreamPages(WindowRecords(cx.upstream, parse_iso(s_iso), parse_iso(e_iso),
                           IF cx.supports THEN Range(Head(chunks)) ELSE {})),
           fenv, x.call))

\* window_start = max(start_dt, window_end - window_delta)
WindowStart(cx, b) == Max(cx.start, b.window_end - cx.delta)

\* the end of an iteration: the totals, processed += 1, window_end = window_start
WindowEnd(r, cx, b) ==
  LET b1 == [b EXCEPT !.inserted = @ + r.x.inserted,
                      !.total_samples_fetched = @ + r.x.samples,
                      !.windows = Append(@, [s |-> parse_iso(iso(WindowStart(cx, b))),
                                             e |-> parse_iso(iso(b.window_end)),
                                             window_start |-> WindowStart(cx, b),
                                             window_end |-> b.window_end]),
                      !.fetch_raised = @ \/ r.x.fetch_raised,
                      !.partial = @ \/ r.x.partial]
  IN IF r.w.status # "ok" THEN [w |-> r.w, b |-> b1]
     ELSE [w |-> r.w,
           b |-> [b1 EXCEPT !.processed = @ + 1, !.window_end = WindowStart(cx, b)]]

\* the fetches of the window, given the names read from the points table
WindowFetches(w0, env, fenv, cx, b) ==
  IF w0.status # "ok" THEN [w |-> w0, b |-> b]
  ELSE WindowEnd(
         FetchAndWriteLoop(w0, env, fenv, cx, iso(WindowStart(cx, b)), iso(b.window_end),
           IF Len(w0.ret) > 0 THEN chunk(w0.ret, NameChunk) ELSE << <<>> >>,
           [call |-> 1, inserted |-> 0, samples |-> 0, partial |-> FALSE,
            fetch_raised |-> FALSE]),
         cx, b)

\* one iteration of the while loop of run_backfill
WindowStep(w, env, fenv, cx, b) ==
  WindowFetches(get_point_names_from_supabase(w, env, cx.site), env, fenv, cx, b)

\* the while condition
MoreWindows(cx, b) == b.processed < cx.max_chunks /\ b.window_end > cx.start

\* a variant that persists the end the run was started with
PersistRunEnd(w, env, site, end_dt, window_end) ==
  set_ingest_cursor(w, env, site, iso(end_dt))

\* after the loop: set_ingest_cursor(client, site, iso(window_end))
PersistCursor(w, env, site, end_dt, window_end) ==
  set_ingest_cursor(w, env, site, iso(window_end))

\* datetime.now(tz=timezone.utc) of main
now == 3 * MsPerMinute + 250

\* a variant of the end strategy that leaves the cursor out
EndDtWithoutCursor(cur, earliest) ==
  IF earliest # {} THEN CHOOSE t \in earliest : TRUE ELSE now

\* a variant of the end strategy that never looks at the stored samples
EndDtCursorOrNow(cur, earliest) ==
  IF cur # {} THEN parse_iso(CHOOSE c \in cur : TRUE) ELSE now

\* the end of a run without --end: the cursor, else the earliest stored
\* instant of the site, else now
EndDt(cur, earliest) ==
  IF cur # {} THEN parse_iso(CHOOSE c \in cur : TRUE)
  ELSE IF earliest # {} THEN CHOOSE t \in earliest : TRUE
  ELSE now

\* main() up to the call of run_backfill: the end strategy.  The result has
\* the world, end_dt, stateful and how the end was found.
MainEndAfterReads(w1, w2) ==
  [w |-> w2,
   end_dt |-> IF w2.status = "ok" THEN EndDt(w1.ret, w2.ret) ELSE 0,
   stateful |-> TRUE,
   mode |-> IF w1.ret # {} THEN "cursor" ELSE IF w2.ret # {} THEN "earliest" ELSE "now"]

MainEndAfterCursor(w1, env, site) ==
  MainEndAfterReads(w1, IF w1.status = "ok" /\ w1.ret = {}
                        THEN get_site_earliest_ts(w1, env, site)
                        ELSE [w1 EXCEPT !.ret = {}])

\* a variant in which a run with --end is cursor-resuming as well
MainEndAlwaysStateful(w, env, site, end_arg) ==
  IF end_arg.given
  THEN [w |-> w, end_dt |-> parse_iso(end_arg.at), stateful |-> TRUE, mode |-> "explicit"]
  ELSE MainEndAfterCursor(get_ingest_cursor(w, env, site), env, site)

MainEnd(w, env, site, end_arg) ==
  IF end_arg.given
  THEN [w |-> w, end_dt |-> parse_iso(end_arg.at), stateful |-> FALSE, mode |-> "explicit"]
  ELSE MainEndAfterCursor(get_ingest_cursor(w, env, site), env, site)

(***************************************************************************)
(* Runs of the backfill script for site s1, one after the other with the   *)
(* same command line.                                                      *)
(* Beside the locals of main and run_backfill a state records, for the     *)
(* properties: cursor0 (the site's ingest_state row when the run began),   *)
(* read_failed (the read of that row failed), store_fault (a store call of *)
(* the run failed), cursor_written (the run wrote the row), store0 (the     *)
(* store before the first run), prev (how the previous run ended) and      *)
(* faults (the things that went wrong so far).                             *)
(*   pc  "start"    main() was entered                                     *)
(*       "loop"     run_backfill is at the head of its while loop          *)
(*       "done"     run_backfill returned                                  *)
(*       "crashed"  an exception ended the process                         *)
(*       "killed"   the process was interrupted                            *)
(***************************************************************************)
bf_site == "s1"

Rec(n, ms, v) == Raw(n, "", "", IntTime(ms), v)

BfUpstreams ==
  {<<Rec("a", MsPerMinute + 30000, NumVal(Fin(1))),
     Rec("b", MsPerMinute + 30000, NumVal(Fin(1))),
     Rec("b", 30000, NumVal(Fin(2)))>>,
   <<Rec("a", 30000, NumVal(Fin(1)))>>,
   <<Rec("a", MsPerMinute + 30000, NumVal(Fin(1))),
     Rec("a", MsPerMinute + 30000, NumVal(Fin(2))),
     Rec("a", MsPerMinute + 30500, StrVal("Infinity"))>>}

BfStores ==
  {MkStore({}, 1, {}),
   MkStore({PointRow(bf_site, "a", 1)}, 2, {TsRow(1, 2 * MsPerMinute + 30250, Fin(2))}),
   [MkStore({PointRow(bf_site, "a", 1)}, 2, {TsRow(1, 2 * MsPerMinute + 30250, Fin(2))})
      EXCEPT !.ingest_state =
        {[site_name |-> bf_site, backfill_end |-> iso(2 * MsPerMinute)]}]}

NoEnd == [given |-> FALSE, at |-> TsStr(0, "Z")]
EndAt(ms) == [given |-> TRUE, at |-> TsStr(ms, "offset")]

BfArgs ==
  [start : {0, 500},
   end : {NoEnd, EndAt(MsPerMinute), EndAt(2 * MsPerMinute),
          EndAt(MsPerMinute + 30000), EndAt(2 * MsPerMinute + 500)},
   chunk_minutes : {1, 2},
   max_chunks : 1..MaxChunks]

Troubles ==
  {[call |-> c, page |-> q, kind |-> k.kind, failures |-> k.failures, budget |-> -1] :
     c \in {1, 2}, q \in {1, 2},
     k \in {[kind |-> "conn", failures |-> ConnectRetries + 1],
            [kind |-> "conn", failures |-> Attempts * (ConnectRetries + 1)],
            [kind |-> "status", failures |-> 1]}}
  \cup {[NoTrouble EXCEPT !.budget = 1]}

\* at most one thing goes wrong per step
CleanEnv == [env |-> NoFaults, fenv |-> NoTrouble]
WindowEnvs ==
  {CleanEnv}
  \cup {[env |-> [fail |-> {k}, cut |-> -1], fenv |-> NoTrouble] : k \in 1..MaxCalls}
  \cup {[env |-> [fail |-> {}, cut |-> k], fenv |-> NoTrouble] : k \in 0..MaxCalls}
  \cup {[env |-> NoFaults, fenv |-> t] : t \in Troubles}

NoLocals ==
  [window_end |-> 0, processed |-> 0, inserted |-> 0, total_samples_fetched |-> 0,
   windows |-> <<>>, fetch_raised |-> FALSE, partial |-> FALSE]

NoPrev ==
  [pc |-> "none", windows |-> <<>>, update_state |-> FALSE, cursor_written |-> FALSE,
   fault |-> FALSE]

BfFresh(args, upstream, supports, store0, run, prev, faults) ==
  [pc |-> "start", run |-> run, args |-> args, upstream |-> upstream,
   supports |-> supports, store0 |-> store0, prev |-> prev,
   end_dt |-> 0, update_state |-> FALSE, mode |-> "", cursor0 |-> {},
   read_failed |-> FALSE,
   point_cache |-> << >>, b |-> NoLocals, store_fault |-> FALSE,
   cursor_written |-> FALSE, ret |-> <<>>, faults |-> faults]

Cx(s) ==
  [upstream |-> s.upstream, supports |-> s.supports, site |-> bf_site,
   start |-> s.args.start, delta |-> s.args.chunk_minutes * MsPerMinute,
   max_chunks |-> s.args.max_chunks]

InitBackfill ==
  /\ store \in BfStores
  /\ \E args \in BfArgs, upstream \in BfUpstreams, supports \in BOOLEAN :
       bf = BfFresh(args, upstream, supports, store, 1, NoPrev, 0)
  /\ fn = Unused
  /\ wr = Unused
  /\ sy = Unused

\* main() and run_backfill up to the loop: the end strategy and the preload of
\* the point cache
BfMain ==
  /\ bf.pc = "start"
  /\ \E k \in 0..(IF bf.faults < MaxFaults THEN 3 ELSE 0) :
     \E m \in {MainEnd(World(store, << >>), [fail |-> {k} \ {0}, cut |-> -1], bf_site,
                         bf.args.end)} :
     \E w \in {load_all_point_ids(m.w, [fail |-> {k} \ {0}, cut |-> -1], bf_site)} :
          bf' = [bf EXCEPT
                   !.pc = IF w.status = "ok" THEN "loop" ELSE "crashed",
                   !.end_dt = m.end_dt, !.update_state = m.stateful, !.mode = m.mode,
                   !.cursor0 = CursorRows(store.ingest_state, bf_site),
                   !.read_failed = ~bf.args.end.given /\ k = 1,
                   !.point_cache = w.point_cache,
                   !.b = [NoLocals EXCEPT !.window_end = m.end_dt],
                   !.store_fault = k # 0 /\ k <= w.calls,
                   !.faults = IF k # 0 /\ k <= w.calls THEN @ + 1 ELSE @]
  /\ UNCHANGED <<fn, store, wr, sy>>

\* one iteration of the while loop
BfWindow ==
  /\ bf.pc = "loop"
  /\ MoreWindows(Cx(bf), bf.b)
  /\ \E e \in IF bf.faults < MaxFaults THEN WindowEnvs ELSE {CleanEnv} :
     \E r \in {WindowStep(World(store, bf.point_cache), e.env, e.fenv, Cx(bf), bf.b)} :
       LET failed == \E k \in e.env.fail : k <= r.w.calls
           hit == failed \/ r.w.status # "ok" \/ (r.b.partial /\ ~bf.b.partial)
       IN /\ store' = StoreOf(r.w)
          /\ bf' = [bf EXCEPT
                      !.pc = CASE r.w.status = "ok" -> "loop"
                               [] r.w.status = "killed" -> "killed"
                               [] OTHER -> "crashed",
                      !.point_cache = r.w.point_cache,
                      !.b = r.b,
                      !.store_fault = @ \/ failed,
                      !.faults = IF hit THEN @ + 1 ELSE @]
  /\ UNCHANGED <<fn, wr, sy>>

\* the loop ended: the cursor is persisted when the run is cursor-resuming,
\* and run_backfill returns (processed, inserted)
BfFinish ==
  /\ bf.pc = "loop"
  /\ ~MoreWindows(Cx(bf), bf.b)
  /\ \E e \in IF bf.faults < MaxFaults /\ bf.update_state
             THEN {NoFaults, [fail |-> {1}, cut |-> -1], [fail |-> {}, cut |-> 0]}
             ELSE {NoFaults} :
     \E w \in {IF bf.update_state
               THEN PersistCursor(World(store, bf.point_cache), e, bf_site, bf.end_dt,
                                  bf.b.window_end)
               ELSE World(store, bf.point_cache)} :
          /\ store' = StoreOf(w)
          /\ bf' = [bf EXCEPT
                      !.pc = IF w.status = "killed" THEN "killed" ELSE "done",
                      !.cursor_written = bf.update_state /\ w.status = "ok" /\ e.fail = {},
                      !.store_fault = @ \/ e.fail # {},
                      !.faults = IF e = NoFaults THEN @ ELSE @ + 1,
                      !.ret = IF w.status = "killed" THEN <<>>
                              ELSE <<bf.b.processed, bf.b.inserted>>]
  /\ UNCHANGED <<fn, wr, sy>>

\* the script is started again with the same command line
BfRerun ==
  /\ bf.pc \in {"done", "crashed", "killed"}
  /\ bf.run < MaxRuns
  /\ bf' = BfFresh(bf.args, bf.upstream, bf.supports, bf.store0, bf.run + 1,
                   [pc |-> bf.pc, windows |-> bf.b.windows,
                    update_state |-> bf.update_state,
                    cursor_written |-> bf.cursor_written,
                    fault |-> bf.store_fault \/ bf.b.fetch_raised \/ bf.b.partial],
                   bf.faults)
  /\ UNCHANGED <<fn, store, wr, sy>>

NextBackfill ==
  \/ BfMain
  \/ BfWindow
  \/ BfFinish
  \/ BfRerun

SpecBackfill == InitBackfill /\ [][NextBackfill]_vars

(***************************************************************************)
(* C2: exactly-once-in-effect under interruption.  For a fixed upstream    *)
(* and a fixed [start, end) range, a backfill run that is interrupted and  *)
(* then run again over the same range ends with the same timeseries rows   *)
(* as one uninterrupted run from the same store: none duplicated, none     *)
(* lost.  (No store call and no fetch fails in either run.)                *)
(***************************************************************************)
RECURSIVE UninterruptedLoop(_, _, _)
UninterruptedNext(r, cx) == UninterruptedLoop(r.w, cx, r.b)
UninterruptedLoop(w, cx, b) ==
  IF MoreWindows(cx, b)
  THEN UninterruptedNext(WindowStep(w, NoFaults, NoTrouble, cx, b), cx)
  ELSE w

\* the store after one run that nothing disturbs, from store st
UninterruptedRun(st, s) ==
  StoreOf(UninterruptedLoop(load_all_point_ids(World(st, << >>), NoFaults, bf_site),
                            Cx(s),
                            [NoLocals EXCEPT !.window_end = parse_iso(s.args.end.at)]))

\* the rows of the site by point name
SampleRows(st) ==
  {[name |-> pr[1].name, ts |-> pr[2].ts, value |-> pr[2].value] :
     pr \in {q \in st.points \X st.timeseries :
               q[1].site_name = bf_site /\ q[1].id = q[2].point_id}}

RerunAfterInterruption ==
  /\ bf.pc = "done"
  /\ bf.run = 2
  /\ bf.args.end.given
  /\ bf.prev.pc = "killed"
  /\ ~bf.prev.fault
  /\ ~(bf.store_fault \/ bf.b.fetch_raised \/ bf.b.partial)

SameRows(st1, st2) ==
  /\ SampleRows(st1) = SampleRows(st2)
  /\ Cardinality(st1.timeseries) = Cardinality(st2.timeseries)

C2_ExactlyOnceUnderInterruption ==
  RerunAfterInterruption => SameRows(store, UninterruptedRun(bf.store0, bf))

(***************************************************************************)
(* C6: window walk termination.  For start < end, run_backfill ends having *)
(* processed exactly min(max_windows, ceil((end - start) / window_size))   *)
(* windows, and no window it fetches has a boundary below start.  (No      *)
(* store call and no fetch fails.)                                         *)
(***************************************************************************)
WalkCount(s) ==
  Min(s.args.max_chunks, CeilDiv(s.end_dt - s.args.start, s.args.chunk_minutes * MsPerMinute))

CleanRun == ~(bf.store_fault \/ bf.b.fetch_raised \/ bf.b.partial)

WalkCountExact ==
  (bf.pc = "done" /\ CleanRun /\ bf.args.start < bf.end_dt)
     => bf.b.processed = WalkCount(bf)

NoBoundaryBelowStart ==
  \A i \in 1..Len(bf.b.windows) :
     bf.b.windows[i].s >= bf.args.start /\ bf.b.windows[i].e >= bf.args.start

C6_WindowWalkTermination == WalkCountExact /\ NoBoundaryBelowStart

(***************************************************************************)
(* C7: resumability.  If the site's ingest_state row holds cursor C and a  *)
(* backfill is started with no explicit end, the first window processed    *)
(* has window_end = C.  (The read of the row succeeds.)                    *)
(***************************************************************************)
ResumesFromCursor ==
  ~bf.args.end.given /\ bf.cursor0 # {} /\ ~bf.read_failed /\ Len(bf.b.windows) > 0

Last(q) == q[Len(q)]

PersistedIsFinalBoundary ==
  (bf.pc = "done" /\ bf.update_state /\ bf.cursor_written)
     => /\ CursorRows(store.ingest_state, bf_site) = {iso(bf.b.window_end)}
        /\ Len(bf.b.windows) > 0
             => parse_iso(iso(bf.b.window_end)) = Last(bf.b.windows).s

HandedOver ==
  /\ bf.run > 1
  /\ bf.pc # "start"
  /\ bf.prev.pc = "done"
  /\ bf.prev.update_state
  /\ bf.prev.cursor_written
  /\ ~bf.read_failed

NextRunStaysBelow ==
  HandedOver =>
    \A i \in 1..Len(bf.b.windows) :
       /\ \A c \in bf.cursor0 : bf.b.windows[i].e <= parse_iso(c)
       /\ \A j \in 1..Len(bf.prev.windows) : bf.b.windows[i].e <= bf.prev.windows[j].s

C8_CursorHandOver == PersistedIsFinalBoundary /\ NextRunStaysBelow

\* a second cursor-resuming run fetched a window after a first one that fetched
\* a window and persisted its cursor
C8_Witness ==
  /\ HandedOver
  /\ Len(bf.prev.windows) > 0
  /\ Len(bf.b.windows) > 0
  /\ bf.b.windows[1].e = Last(bf.prev.windows).s

(***************************************************************************)
(* C9: in backfill mode a window-level fetch failure never aborts the run. *)
(* When the fetch of a window fails (retries exhausted, or a rejection by  *)
(* the upstream), run_backfill goes on with the next older window and      *)
(* still returns (windows_processed, samples_written).                     *)
(***************************************************************************)
C9_FetchFailureNeverAborts == bf.b.fetch_raised => bf.pc \in {"loop", "done"}

(***************************************************************************)
(* C23: the resume cursor is written on interruption as well as at normal  *)
(* end.  If a cursor-resuming run stops early because the fetch or the     *)
(* write of a window raises after k >= 1 windows were completed, the       *)
(* persisted backfill_end is the boundary of the last completed window.    *)
(***************************************************************************)
StoppedByRaise ==
  /\ bf.pc = "crashed"
  /\ bf.update_state
  /\ bf.b.processed >= 1

C23_CursorWrittenOnInterruption ==
  StoppedByRaise => CursorRows(store.ingest_state, bf_site) = {iso(bf.b.window_end)}

\* the fetch of the second window raised after the first window was completed
C23_Witness ==
  /\ StoppedByRaise
  /\ bf.b.fetch_raised
  /\ bf.b.processed = 1
  /\ Len(bf.b.windows) = 2
  /\ bf.b.window_end = bf.b.windows[1].s

(***************************************************************************)
(* C24: the persisted cursor marks fully processed data.  Whenever a       *)
(* cursor-resuming run persists backfill_end = B, every window between B   *)
(* and the end the run started from was fully processed: no fetch of it    *)
(* was cut short by the time budget or the page-count ceiling, and every   *)
(* valid sample of the pages the upstream has for its requests has its row *)
(* in the store.  The requests of a window ask for the names the points    *)
(* table holds; the samples looked at are those of the first run whose     *)
(* name the table held when the run began, and all of them when the        *)
(* upstream does not filter by name.  (No store call fails.)               *)
(***************************************************************************)
CursorPersisted ==
  /\ bf.pc = "done"
  /\ bf.update_state
  /\ bf.cursor_written
  /\ ~bf.store_fault

\* the valid samples the upstream serves between the cursor and the end
SamplesBehindCursor ==
  {smp \in Range(ParseRows(WindowRecords(bf.upstream, parse_iso(iso(bf.b.window_end)),
                                         parse_iso(iso(bf.end_dt)), {})).rows) :
     ~bf.supports \/ smp.point_name \in SitePointNames(bf.store0.points, bf_site)}

StoredRow(smp) ==
  \E row \in SampleRows(store) :
     row.name = smp.point_name /\ row.ts = parse_iso(iso(smp.timestamp))

NoWindowCutShort == CursorPersisted => ~bf.b.partial

AllSamplesBehindCursorStored ==
  (CursorPersisted /\ bf.run = 1) => \A smp \in SamplesBehindCursor : StoredRow(smp)

C24_CursorMarksProcessed == NoWindowCutShort /\ AllSamplesBehindCursorStored

\* a run whose only window was cut short by the time budget persisted its
\* cursor at the start of that window
C24_Witness ==
  /\ CursorPersisted
  /\ bf.b.partial
  /\ bf.b.processed = 1
  /\ CursorRows(store.ingest_state, bf_site) = {iso(bf.b.windows[1].s)}
  /\ bf.run = 1
  /\ \E smp \in SamplesBehindCursor : ~StoredRow(smp)

(***************************************************************************)
(* C29: cursor fallback.  When a backfill is started with no explicit end  *)
(* and the site has no ingest_state row, the first window_end is the       *)
(* earliest timestamp already stored for the site, or the current time if  *)
(* the site has no stored samples; the run is still cursor-resuming: it    *)
(* persists a cursor at its end.  (First run; no store call fails.)        *)
(***************************************************************************)
FellBack ==
  /\ bf.run = 1
  /\ bf.pc # "start"
  /\ ~bf.args.end.given
  /\ bf.cursor0 = {}
  /\ ~bf.store_fault

WithinRange(win) == bf.args.start <= win.s /\ win.s < win.e /\ win.e <= bf.end_dt

Chained(windows) ==
  \A i \in 1..(Len(windows) - 1) :
     windows[i + 1].e = windows[i].s /\ windows[i + 1].e < windows[i].e

CoversUpToEnd(windows) == Len(windows) > 0 => windows[1].e = bf.end_dt

C35_WindowsTileRange ==
  /\ \A i \in 1..Len(bf.b.windows) : WithinRange(bf.b.windows[i])
  /\ Chained(bf.b.windows)
  /\ CoversUpToEnd(bf.b.windows)

\* a run to an end half a second past the minute fetched two windows: the
\* first was asked up to the full minute, the half second to end was left out
C35_Witness ==
  /\ bf.args.end = EndAt(2 * MsPerMinute + 500)
  /\ bf.args.start = 0
  /\ Len(bf.b.windows) = 2
  /\ bf.b.windows[1].window_end = 2 * MsPerMinute + 500
  /\ bf.b.windows[1].e = 2 * MsPerMinute
  /\ bf.b.windows[2].e = bf.b.windows[1].s

(***************************************************************************)
(* C36: backward-monotonic resume cursor.  Across any sequence of          *)
(* cursor-resuming runs for one site, including runs in which reading the  *)
(* cursor fails or writing it fails, the persisted backfill_end never      *)
(* moves to a later instant than the value it held before.                 *)
(***************************************************************************)
PersistedEnds(st) == {parse_iso(c) : c \in CursorRows(st.ingest_state, bf_site)}

C36_CursorNeverMovesLater ==
  [][\A before \in PersistedEnds(store), after \in PersistedEnds(store') :
        after <= before]_vars

\* a run whose read of the row failed went on from the earliest stored sample
\* and left a later backfill_end than the one it found
C36_Witness ==
  /\ bf.pc = "done"
  /\ bf.read_failed
  /\ bf.mode = "earliest"
  /\ bf.cursor_written
  /\ bf.cursor0 # {}
  /\ \E c \in bf.cursor0 : \E after \in PersistedEnds(store) : after > parse_iso(c)

(***************************************************************************)
(* C39: an explicit end leaves the resume cursor untouched.  A backfill    *)
(* started with an explicit end neither reads nor writes the site's        *)
(* ingest_state row: its end is the one given, it is not cursor-resuming,  *)
(* and the persisted backfill_end after the run equals its value before    *)
(* the run, whatever windows were processed.                               *)
(***************************************************************************)
C39_ExplicitEndLeavesCursor ==
  bf.args.end.given =>
    /\ store.ingest_state = bf.store0.ingest_state
    /\ ~bf.cursor_written
    /\ bf.pc # "start" =>
         /\ bf.mode = "explicit"
         /\ ~bf.update_state
         /\ bf.end_dt = parse_iso(bf.args.end.at)

\* a run with --end ended after two windows below the stored cursor: the row
\* still holds what it held
C39_Witness ==
  /\ bf.args.end.given
  /\ bf.pc = "done"
  /\ bf.b.processed = 2
  /\ bf.b.inserted >= 1
  /\ CursorRows(bf.store0.ingest_state, bf_site) # {}
  /\ CursorRows(store.ingest_state, bf_site) = CursorRows(bf.store0.ingest_state, bf_site)
  /\ iso(bf.b.window_end) \notin CursorRows(store.ingest_state, bf_site)

(***************************************************************************)
(* C31: progress accounting regardless of outcome.  However a run ends,    *)
(* at its normal end, at max_windows or at a failing window, the running   *)
(* totals up to that moment are returned or reported to the caller: the    *)
(* windows processed and the samples written are what run_backfill hands   *)
(* back.                                                                   *)
(***************************************************************************)
\* the run ended in its loop or after it
RunEnded ==
  \/ bf.pc = "done"
  \/ bf.pc = "crashed" /\ Len(bf.b.windows) > 0

C31_TotalsWhateverTheOutcome ==
  RunEnded => bf.ret = <<bf.b.processed, bf.b.inserted>>

\* the second window of a run failed after the first wrote a row: nothing is
\* handed back
C31_Witness ==
  /\ bf.pc = "crashed"
  /\ bf.b.processed = 1
  /\ bf.b.inserted >= 1
  /\ Len(bf.b.windows) = 2
  /\ bf.ret = <<>>

(***************************************************************************)
(* fetch_paginated_window on drawn inputs: the pages the upstream serves   *)
(* for a window, and what goes wrong while they are fetched.               *)
(***************************************************************************)
\* the k-th record of the upstream's window: every third one has the value
\* "nan"
FetchRecord(k) ==
  Rec(IF k % 2 = 1 THEN "a" ELSE "b", k * MsPerSecond,
      IF k % 3 = 0 THEN StrVal("nan") ELSE NumVal(Fin(1)))

FetchContents ==
  {[k \in 1..n |-> FetchRecord(k)] : n \in 0..((PageCeiling + 2) * PageRows)}

\* an upstream that hands out a cursor with every page, for ever: its first
\* PageCeiling + 2 pages, all empty or every other one empty
EndlessPages(all_empty) ==
  [i \in 1..(PageCeiling + 2) |->
     [rows |-> IF all_empty \/ i % 2 = 1 THEN <<>> ELSE <<FetchRecord(i)>>,
      next_cursor |-> "more"]]

\* the pages of a window, a window whose first page is empty with a cursor,
\* and the endless ones
FetchUpstreams ==
  {UpstreamPages(c) : c \in FetchContents}
  \cup {<<[rows |-> <<>>, next_cursor |-> "more"],
          [rows |-> <<FetchRecord(1)>>, next_cursor |-> ""]>>}
  \cup {EndlessPages(e) : e \in BOOLEAN}

\* the failing requests of a page: some the adapter takes up, one, three and
\* four failed attempts
FetchFailures(kind) ==
  IF Caught(kind)
  THEN {AdapterRetries(kind)} \cup
       {n * (AdapterRetries(kind) + 1) : n \in {1, Attempts - 1, Attempts}}
  ELSE {1}

FetchTroubles ==
  {[call |-> 1, page |-> q, kind |-> k, failures |-> n, budget |-> -1] :
     q \in 1..(PageCeiling + 1), k \in {"conn", "body", "forced", "server", "status"},
     n \in 1..(Attempts * (TotalRetries + 1))}

FetchEnvs ==
  {NoTrouble}
  \cup {t \in FetchTroubles : t.failures \in FetchFailures(t.kind)}
  \cup {[NoTrouble EXCEPT !.budget = b] : b \in 0..(PageCeiling + 1)}

\* the page_size argument: main passes max(10, int(args.page_size))
PageSizes == {10, 12000, PageCap, DefaultPageSize}

InitFetch ==
  /\ \E ps \in FetchUpstreams, fenv \in FetchEnvs, page_size \in PageSizes :
       fn = [op |-> "none", ps |-> ps, fenv |-> fenv, page_size |-> page_size,
             f |-> NoFetch]
  /\ store = Unused
  /\ wr = Unused
  /\ bf = Unused
  /\ sy = Unused

\* fetch_paginated_window(site, start_iso, end_iso, ace_token, page_size)
FnFetchWindow ==
  /\ fn.op = "none"
  /\ fn' = [fn EXCEPT !.op = "fetch",
                      !.f = FetchWindowOfSize(fn.ps, fn.fenv, 1, fn.page_size)]
  /\ UNCHANGED <<store, wr, bf, sy>>

NextFetch == FnFetchWindow

SpecFetch == InitFetch /\ [][NextFetch]_vars

\* the samples of the first n pages
RECURSIVE ParsedUpTo(_, _)
ParsedUpTo(ps, n) ==
  IF n = 0 THEN <<>> ELSE ParsedUpTo(ps, n - 1) \o ParseRows(ps[n].rows).rows

(***************************************************************************)
(* C12: the per-page retry state machine.  For each page at most 4         *)
(* attempts are made; a failed attempt (connection failure, malformed or   *)
(* partial body, server error status) is followed by a backoff sleep and   *)
(* another attempt; the first successful attempt ends the loop and its     *)
(* records are returned without raising; if every attempt fails the last   *)
(* error is raised.                                                        *)
(***************************************************************************)
\* the fetch requested a page whose attempts fail, by one of the failures the
\* claim names
RetriedTrouble ==
  /\ fn.op = "fetch"
  /\ fn.fenv.kind \in {"conn", "body", "forced", "server"}
  /\ fn.fenv.failures > 0
  /\ Len(fn.f.tries) >= fn.fenv.page

C12_PageRetryStateMachine ==
  RetriedTrouble =>
    LET failed == FailedAttempts(fn.fenv)
        tries == fn.f.tries[fn.fenv.page]
    IN /\ tries <= Attempts
       /\ tries = Min(failed + 1, Attempts)
       /\ fn.f.sleeps >= tries - 1
       /\ failed < Attempts =>
            /\ fn.f.status = "ok"
            /\ fn.f.out = ParsedUpTo(fn.ps, Len(fn.f.tries))
       /\ failed >= Attempts => fn.f.status = "raised"

\* a status of the forcelist made three attempts fail; the fourth returned
\* the page
C12_Witness ==
  /\ RetriedTrouble
  /\ fn.fenv.kind = "forced"
  /\ FailedAttempts(fn.fenv) = Attempts - 1
  /\ fn.f.tries[fn.fenv.page] = Attempts
  /\ fn.f.status = "ok"
  /\ Len(fn.f.out) > 0

(***************************************************************************)
(* C13: the time budget.  When the budget of a window is used up after     *)
(* some pages were fetched, fetch_paginated_window requests no further     *)
(* page and returns the samples of the pages already fetched: it neither   *)
(* raises nor drops them.  (No request of the window fails.)               *)
(***************************************************************************)
C13_BudgetReturnsPartial ==
  (fn.op = "fetch" /\ fn.fenv.budget >= 0) =>
    /\ fn.f.status = "ok"
    /\ fn.f.requests <= fn.fenv.budget
    /\ Len(fn.f.tries) = fn.f.requests
    /\ fn.f.out = ParsedUpTo(fn.ps, fn.f.requests)

\* the budget ran out after the first of several pages: its samples are
\* returned
C13_Witness ==
  /\ fn.op = "fetch"
  /\ fn.fenv.budget = 1
  /\ Len(fn.ps) > 1
  /\ fn.f.requests = 1
  /\ fn.f.status = "ok"
  /\ Len(fn.f.out) > 0
  /\ fn.f.out = ParseRows(fn.ps[1].rows).rows

(***************************************************************************)
(* C25: adaptive page size.  Within one window fetch the page size asked   *)
(* for is never below the floor (10000) and never above the cap (50000),   *)
(* it never increases from one request to the next, and each failed        *)
(* attempt while it is above the floor multiplies it by 0.6, clamped to    *)
(* the floor, before the next attempt.                                     *)
(***************************************************************************)
RECURSIVE SumUpTo(_, _)
SumUpTo(q, n) == IF n = 0 THEN 0 ELSE SumUpTo(q, n - 1) + q[n]

\* the j-th session.get call of the fetch was a failed attempt that was caught
FailedRequest(j) ==
  /\ fn.fenv.failures > 0
  /\ Caught(fn.fenv.kind)
  /\ Len(fn.f.tries) >= fn.fenv.page
  /\ LET first == SumUpTo(fn.f.tries, fn.fenv.page - 1) + 1
     IN first <= j /\ j < first + FailedAttempts(fn.fenv)

C25_AdaptivePageSize ==
  fn.op = "fetch" =>
    LET z == fn.f.sizes
    IN /\ Len(z) = fn.f.requests
       /\ \A j \in 1..Len(z) : PageFloor <= z[j] /\ z[j] <= PageCap
       /\ \A j \in 1..(Len(z) - 1) :
            /\ z[j + 1] <= z[j]
            /\ (FailedRequest(j) /\ z[j] > PageFloor) =>
                 z[j + 1] = Max(PageFloor, (z[j] * 6) \div 10)
            /\ ~FailedRequest(j) => z[j + 1] = z[j]

\* three failed attempts from the cap: 50000, 30000, 18000, 10800
C25_Witness ==
  /\ fn.op = "fetch"
  /\ fn.page_size = DefaultPageSize
  /\ fn.fenv.kind = "body"
  /\ fn.fenv.page = 1
  /\ FailedAttempts(fn.fenv) = Attempts - 1
  /\ fn.f.status = "ok"
  /\ Len(fn.f.sizes) > Attempts
  /\ SubSeq(fn.f.sizes, 1, Attempts + 1) = <<50000, 30000, 18000, 10800, 10800>>

(***************************************************************************)
(* C26: a partially covered window is reported as such.  When the fetch    *)
(* loop stops early because of the time budget, what the caller is handed  *)
(* tells it so: no fetch that covered its window completely hands its      *)
(* caller the same value.                                                  *)
(***************************************************************************)
StoppedOnBudget ==
  /\ fn.op = "fetch"
  /\ fn.fenv.budget >= 0
  /\ fn.f.partial
  /\ fn.f.status = "ok"

\* the undisturbed fetches of the upstreams that covered their window
CompleteFetches ==
  {g \in {FetchWindowOfSize(ps, NoTrouble, 1, fn.page_size) : ps \in FetchUpstreams} :
     ~g.partial /\ g.status = "ok"}

C26_PartialWindowReported ==
  StoppedOnBudget => \A g \in CompleteFetches : ReturnValue(g) # ReturnValue(fn.f)

\* the budget ran out after the first of two pages: the caller is handed the
\* samples of the first page, as from a window that has that one page
C26_Witness ==
  /\ StoppedOnBudget
  /\ fn.fenv.budget = 1
  /\ Len(fn.ps) = 2
  /\ Len(fn.f.out) > 0
  /\ \E g \in CompleteFetches : g.requests = 1 /\ ReturnValue(g) = ReturnValue(fn.f)

(***************************************************************************)
(* The two upsert_points on drawn inputs: a points table, the cache of a   *)
(* run (what the run loaded for the site when the table held some of its   *)
(* rows: other runs may have created the rest since), and the names asked  *)
(* for.  wr records the table and the cache before the call.               *)
(***************************************************************************)
rs_site == "s1"

ResolveTables ==
  {{PointRow(rs_site, Sorted(S)[i], i) : i \in 1..Cardinality(S)} \cup other :
     S \in SUBSET Names, other \in {{}, {PointRow("s2", "a", 9)}}}

\* the cache loaded when the table held the rows of the names in S
CacheOf(points, S) == PointsSelect(points, rs_site, S)

ResolveFailSets == {{}} \cup {{k} : k \in 1..(PointBatch + 2)}

InitResolve ==
  /\ \E points \in ResolveTables, S \in SUBSET Names,
        names \in (SUBSET (Names \cup {""})) \ {{}}, kind \in {"script", "function"} :
       /\ store = MkStore(points, 10, {})
       /\ wr = [kind |-> kind, names |-> names, points0 |-> points,
                cache0 |-> CacheOf(points, S), point_cache |-> CacheOf(points, S),
                map_ids |-> << >>, n |-> 0, status |-> "ok", faults |-> FALSE]
  /\ fn = Unused
  /\ bf = Unused
  /\ sy = Unused

RsDone(w, env) ==
  /\ store' = StoreOf(w)
  /\ wr' = [wr EXCEPT !.n = 1, !.point_cache = w.point_cache,
                      !.map_ids = w.map_ids, !.status = w.status,
                      !.faults = \E k \in env.fail : k <= w.calls]
  /\ UNCHANGED <<fn, bf, sy>>

\* upsert_points(client, site, names, point_cache) of the script
RsScriptResolve ==
  /\ wr.kind = "script"
  /\ wr.n = 0
  /\ \E f \in ResolveFailSets :
       LET env == [fail |-> f, cut |-> -1]
       IN RsDone(upsert_points(World(store, wr.point_cache), env, rs_site, wr.names), env)

\* supabase_client.upsert_points(site, list(unique_points)) of main.py: the
\* names sync_site collects are never empty; the mapping is the cache
RsFunctionResolve ==
  /\ wr.kind = "function"
  /\ wr.n = 0
  /\ \E f \in ResolveFailSets :
       LET env == [fail |-> f, cut |-> -1]
           w == SupabaseClient_upsert_points(World(store, wr.point_cache), env, rs_site,
                                             Sorted(wr.names \ {""}))
       IN RsDone([w EXCEPT !.map_ids = w.point_cache], env)

NextResolve == RsScriptResolve \/ RsFunctionResolve

SpecResolve == InitResolve /\ [][NextResolve]_vars

\* the names asked for that the cache lacked although the table had them
CreatedByOthers ==
  {n \in wr.names \ {""} :
     n \notin DOMAIN wr.cache0 /\ PointRowsOf([points |-> wr.points0], rs_site, n) # {}}

(***************************************************************************)
(* C17: an identity conflict is resolved by re-read.  If a point name      *)
(* missing from the run's cache was created by another run before this     *)
(* run's insert attempt, the insert conflict is not surfaced as an error,  *)
(* and the cache afterwards holds the identifier of the existing Point row *)
(* for that name, which resolve returns.  (No store call fails for a       *)
(* reason of the store's own.)                                             *)
(***************************************************************************)
C17_ConflictResolvedByReread ==
  (wr.n = 1 /\ ~wr.faults) =>
    \A n \in CreatedByOthers :
      /\ wr.status = "ok"
      /\ n \in DOMAIN wr.point_cache
      /\ n \in DOMAIN wr.map_ids
      /\ \A p \in PointRowsOf([points |-> wr.points0], rs_site, n) :
           wr.point_cache[n] = p.id /\ wr.map_ids[n] = p.id

\* the script met a name another run had created: its insert was rejected and
\* the re-read put the existing identifier into the cache
C17_Witness ==
  /\ wr.kind = "script"
  /\ wr.n = 1
  /\ ~wr.faults
  /\ wr.status = "ok"
  /\ "a" \in CreatedByOthers
  /\ store.points = wr.points0
  /\ wr.map_ids["a"] = 1

(***************************************************************************)
(* C18: resolve populates every absent name.  For every set of requested   *)
(* names and every store state, also one changed by another run since the  *)
(* cache was loaded, after resolve(site, names) with the store reachable   *)
(* each non-empty requested name has a Point row (site, name) in the store *)
(* and appears in the returned name -> point_id mapping.                   *)
(***************************************************************************)
C18_ResolvePopulatesAll ==
  (wr.n = 1 /\ ~wr.faults) =>
    \A n \in wr.names \ {""} :
      /\ Cardinality(PointRowsOf(store, rs_site, n)) = 1
      /\ n \in DOMAIN wr.map_ids
      /\ \A p \in PointRowsOf(store, rs_site, n) : wr.map_ids[n] = p.id

\* the script was asked for two names the table lacked: both were created and
\* are in the mapping
C18_Witness ==
  /\ wr.kind = "script"
  /\ wr.n = 1
  /\ ~wr.faults
  /\ wr.names = {"a", "b"}
  /\ PointRowsOf([points |-> wr.points0], rs_site, "a") = {}
  /\ PointRowsOf([points |-> wr.points0], rs_site, "b") = {}
  /\ DOMAIN wr.map_ids = {"a", "b"}
  /\ Cardinality(PointRowsOf(store, rs_site, "a")) = 1
  /\ Cardinality(PointRowsOf(store, rs_site, "b")) = 1

(***************************************************************************)
(* functions/main.py: ACEAPIClient.fetch_timeseries_page on one answer of  *)
(* the upstream.  An answer is what session.get and the calls on its       *)
(* response do:                                                            *)
(*   "ok"             a 2xx response whose body is a JSON object           *)
(*   "http_error"     raise_for_status raises HTTPError (4xx, 5xx)         *)
(*   "request_error"  session.get raises a RequestException (connection,   *)
(*                    timeout, retries exhausted)                          *)
(*   "not_json"       response.json() raises: JSONDecodeError, which is a  *)
(*                    RequestException or only a ValueError depending on   *)
(*                    the version of requests                              *)
(*   "not_object"     the body is JSON but no object: data.get raises      *)
(* The key point_samples of the body is "absent", "null" or a "list", the  *)
(* list being point_samples.                                               *)
(***************************************************************************)
AnswerKinds == {"ok", "http_error", "request_error", "not_json", "not_object"}
Answers ==
  [kind : AnswerKinds,
   samples_key : {"absent", "null", "list"},
   point_samples : SyncLists \cup {<<BaseRaw>>},
   next_cursor : {"", "c1"}, malformed : BOOLEAN]

\* a variant that lets the HTTPError of raise_for_status propagate
FetchPageRaisesHttpError(answer, json_error_is_request_exception) ==
  IF answer.kind = "http_error" THEN [raised |-> TRUE, page |-> NoPage]
  ELSE [raised |-> FALSE,
        page |-> IF answer.kind = "ok" /\ answer.samples_key = "list"
                 THEN Page(answer.point_samples, answer.next_cursor, "", answer.malformed)
                 ELSE Page(<<>>, "", "Unexpected error fetching data", FALSE)]

\* fetch_timeseries_page: the tuple it returns, and whether it raised
fetch_timeseries_page(answer, json_error_is_request_exception) ==
  [raised |-> FALSE,
   page |->
     CASE answer.kind = "http_error" ->
            Page(<<>>, "", "ACE API HTTP error", FALSE)
       [] answer.kind = "request_error" ->
            Page(<<>>, "", "ACE API request error", FALSE)
       [] answer.kind = "not_json" ->
            IF json_error_is_request_exception
            THEN Page(<<>>, "", "ACE API request error", FALSE)
            ELSE Page(<<>>, "", "Unexpected error fetching data", FALSE)
       [] answer.kind = "not_object" ->
            Page(<<>>, "", "Unexpected error fetching data", FALSE)
       [] OTHER ->
            \* data.get("point_samples", []); len(samples) raises on null
            IF answer.samples_key = "null"
            THEN Page(<<>>, "", "Unexpected error fetching data", FALSE)
            ELSE Page(IF answer.samples_key = "absent" THEN <<>>
                      ELSE answer.point_samples,
                      answer.next_cursor, "", answer.malformed)]

InitPage ==
  /\ \E answer \in Answers : fn = [op |-> "answer", answer |-> answer]
  /\ store = MkStore({}, 1, {})
  /\ wr = Unused
  /\ bf = Unused
  /\ sy = Unused

FnFetchPage ==
  /\ fn.op = "answer"
  /\ \E v \in BOOLEAN :
       fn' = [op |-> "fetch_timeseries_page", answer |-> fn.answer,
              out |-> fetch_timeseries_page(fn.answer, v)]
  /\ UNCHANGED <<store, wr, bf, sy>>

NextPage == FnFetchPage

SpecPage == InitPage /\ [][NextPage]_vars

(***************************************************************************)
(* C22: fetch_timeseries_page reports failures as values.  It never        *)
(* raises.  When the request or the parsing of its answer fails it returns *)
(* an empty sample list, no cursor and an error message; otherwise it      *)
(* returns the samples of the page, the upstream's next_cursor and no      *)
(* error.  A body whose point_samples is null counts as a parsing failure. *)
(***************************************************************************)
AnswerFails(answer) == answer.kind # "ok" \/ answer.samples_key = "null"

C22_FetchFailuresAsValues ==
  fn.op = "fetch_timeseries_page" =>
    /\ ~fn.out.raised
    /\ AnswerFails(fn.answer) =>
         /\ fn.out.page.samples = <<>>
         /\ fn.out.page.next_cursor = ""
         /\ fn.out.page.error # ""
    /\ ~AnswerFails(fn.answer) =>
         /\ fn.out.page.samples =
              (IF fn.answer.samples_key = "absent" THEN <<>>
               ELSE fn.answer.point_samples)
         /\ fn.out.page.next_cursor = fn.answer.next_cursor
         /\ fn.out.page.error = ""

\* an HTTP error answer that carried a body was returned as an error value
C22_Witness ==
  /\ fn.op = "fetch_timeseries_page"
  /\ fn.answer.kind = "http_error"
  /\ fn.answer.samples_key = "list"
  /\ fn.answer.point_samples = <<BaseRaw>>
  /\ fn.answer.next_cursor = "c1"
  /\ ~fn.out.raised
  /\ fn.out.page = Page(<<>>, "", "ACE API HTTP error", FALSE)

(***************************************************************************)
(* The two pagination loops side by side: fetch_paginated_window on drawn  *)
(* inputs, and sync_site under its entry points.                           *)
(***************************************************************************)
InitPaging == InitFetch \/ InitSync

NextPaging ==
  \/ fn.op # "unused" /\ NextFetch
  \/ fn.op = "unused" /\ NextSync

SpecPaging == InitPaging /\ [][NextPaging]_vars

(***************************************************************************)
(* C27: empty-page handling.  A page with zero records and a continuation  *)
(* cursor does not end pagination: the loop asks for the next page with    *)
(* that cursor.  Pagination ends only when a page has no continuation      *)
(* cursor or the page-count ceiling is reached, in fetch_paginated_window  *)
(* and in sync_site.  (No request fails and the time budget is not used    *)
(* up; sync_site is not ended by a page it cannot process.)                *)
(***************************************************************************)
\* fetch_paginated_window returned undisturbed after n pages
FetchEnded(n) ==
  /\ fn.op = "fetch"
  /\ fn.fenv = NoTrouble
  /\ n = Len(fn.f.tries)

FetchEndsAtLastPageOrCeiling ==
  \A n \in 1..(PageCeiling + 2) :
     FetchEnded(n) =>
       /\ \A i \in 1..(n - 1) : fn.ps[i].next_cursor # ""
       /\ fn.ps[n].next_cursor = "" \/ n >= PageCeiling

EmptyWithCursor(page) ==
  page.error = "" /\ Len(page.samples) = 0 /\ page.next_cursor # ""

\* sync_site goes from an empty page with a cursor back to the head of its
\* loop, with that cursor for the next request
SyncFollowsCursor ==
  (fn.op = "unused" /\ sy.pc = "fetched" /\ EmptyWithCursor(sy.page)) =>
     /\ sy'.pc = "loop"
     /\ sy'.idx = sy.idx
     /\ sy'.l.cursor = sy.page.next_cursor
     /\ sy'.l.pages_fetched = sy.l.pages_fetched + 1

\* sync_site leaves its loop on a page without a cursor or at the ceiling
\* (or on a failed fetch, or on a page that makes it raise)
SyncEndsAtLastPageOrCeiling ==
  (fn.op = "unused" /\ sy.pc \in {"loop", "fetched"}
     /\ sy'.pc \notin {"loop", "fetched"}) =>
       \/ sy.pc = "loop" /\ sy.l.pages_fetched >= sy.max_pages
       \/ sy.pc = "fetched" /\ sy.page.next_cursor = ""
       \/ sy.pc = "fetched" /\ (sy.page.error # "" \/ sy.page.malformed)

Endless(ps) == \A i \in 1..Len(ps) : ps[i].next_cursor # ""

FetchStopsAtCeiling ==
  (fn.op = "fetch" /\ fn.fenv = NoTrouble) =>
     /\ fn.f.status = "ok"
     /\ fn.f.requests <= PageCeiling + 1
     /\ Endless(fn.ps) =>
          /\ fn.f.requests = PageCeiling + 1
          /\ ReturnValue(fn.f) = ParsedUpTo(fn.ps, PageCeiling + 1)

SyncRequestsBounded ==
  (fn.op = "unused" /\ sy.pc # "idle") =>
     /\ sy.fetches <= sy.max_pages
     /\ sy.l.pages_fetched <= sy.max_pages

\* at max_pages sync_site returns its totals without an error
SyncReturnsAtCeiling ==
  (fn.op = "unused" /\ sy.pc = "loop" /\ sy.l.pages_fetched >= sy.max_pages) =>
     /\ sy'.pc \in {"begin", "respond"}
     /\ sy'.results = Append(sy.results, SyncResult(sy.l, ""))

C28_CeilingTerminates ==
  /\ [](FetchStopsAtCeiling /\ SyncRequestsBounded)
  /\ [][SyncReturnsAtCeiling]_vars

\* the endless upstream with every other page empty: the fetch returned after
\* PageCeiling + 1 requests with the samples of the pages it was given
C28_Witness ==
  /\ fn.op = "fetch"
  /\ fn.fenv = NoTrouble
  /\ fn.ps = EndlessPages(FALSE)
  /\ fn.f.status = "ok"
  /\ fn.f.requests = PageCeiling + 1
  /\ Len(fn.f.out) > 0

(***************************************************************************)
(* The two cache loads on drawn points tables: load_all_point_ids of the   *)
(* script and SupabaseClient.load_point_cache of main.py.  The table is    *)
(* not changed during a load and the store answers the ranges of one load  *)
(* in one order.                                                           *)
(*   fn.op  "begin", then the name of the load that ran                    *)
(***************************************************************************)
LoadStores ==
  {MkStore({PointRow("s1", NameOrder[i], i) : i \in S} \cup other, 10, {}) :
     S \in SUBSET (1..Len(NameOrder)),
     other \in {{}, {PointRow("s2", "a", 9)}}}

InitLoad ==
  /\ store \in LoadStores
  /\ \E site \in Sites :
       fn = [op |-> "begin", site |-> site, point_cache |-> << >>, asked |-> <<>>,
             status |-> "ok", failed |-> FALSE]
  /\ wr = Unused
  /\ bf = Unused
  /\ sy = Unused

Loaded(op, w, failed) ==
  [fn EXCEPT !.op = op, !.point_cache = w.point_cache, !.asked = w.asked,
             !.status = w.status, !.failed = failed]

\* name_to_id = load_all_point_ids(client, site)
FnLoadAllPointIds ==
  /\ fn.op = "begin"
  /\ \E k \in 0..2 :
       fn' = Loaded("load_all_point_ids",
                    load_all_point_ids(World(store, << >>),
                                       [fail |-> {k} \ {0}, cut |-> -1], fn.site),
                    k > 0)
  /\ UNCHANGED <<store, wr, bf, sy>>

\* db.load_point_cache(site), on the cache of the site before
FnLoadPointCache ==
  /\ fn.op = "begin"
  /\ \E k \in 0..1, before \in {<< >>, [n \in {"a"} |-> 9]} :
       fn' = Loaded("load_point_cache",
                    load_point_cache(World(store, before),
                                     [fail |-> {k} \ {0}, cut |-> -1], fn.site),
                    k > 0)
  /\ UNCHANGED <<store, wr, bf, sy>>

NextLoad == FnLoadAllPointIds \/ FnLoadPointCache

SpecLoad == InitLoad /\ [][NextLoad]_vars

(***************************************************************************)
(* C34: complete, paged cache load.  The identity cache is filled by a     *)
(* scan in which no request asks for an unbounded number of rows, and      *)
(* after the load the cache holds the (name, point_id) pair of every Point *)
(* row of the site, for any number of points relative to the page size.    *)
(* (No request of the load fails.)                                         *)
(***************************************************************************)
AllPairs(site) == PointsSelect(store.points, site, SitePointNames(store.points, site))

LoadRan == fn.op \in {"load_all_point_ids", "load_point_cache"} /\ ~fn.failed

EveryRequestBounded == \A i \in 1..Len(fn.asked) : fn.asked[i].ranged

C34_CompletePagedLoad ==
  LoadRan => /\ EveryRequestBounded
             /\ fn.point_cache = AllPairs(fn.site)

\* main.py loaded the cache of a site with more points than a page of the
\* script: one request, without a range
C34_Witness ==
  /\ fn.op = "load_point_cache"
  /\ ~fn.failed
  /\ fn.site = "s1"
  /\ Cardinality(DOMAIN fn.point_cache) > LoadBatch
  /\ fn.asked = <<Unranged>>
============================================================================
